---------------------------- MODULE Spec2Model ----------------------------
(***************************************************************************)
(* Sales-force deployment diagnostics (liuxx839/ffe).                      *)
(*                                                                         *)
(* The eight evaluation rules of ffe_groundrules_test.py, the module both  *)
(* ffe_test.py and ffe_test_script.py import, are modelled as operators    *)
(* over a table (a sequence of row records), and the Streamlit front end   *)
(* of ffe_test.py as a state machine: a dataset is loaded, and every step  *)
(* is one run of the script: with no button pressed, with "Run Selected    *)
(* Module" pressed (the selected rule is evaluated, its table left in      *)
(* result_df and saved as a workbook of one sheet) or with "Show me the    *)
(* power!" pressed (every rule is run into one workbook).  The batch       *)
(* runner of ffe_test_script.py is a second state machine over the same    *)
(* variables: one step per iteration of its loop over the rules.           *)
(*                                                                         *)
(* ffe_groundrules.py holds the same eight rules over other column names;  *)
(* they are modelled a second time, under names ending in _groundrules,    *)
(* and compared with the first.  The front end of ffe.py, which runs six   *)
(* of them without a button, is a third state machine over the same        *)
(* variables (names ending in _ffe).                                       *)
(*                                                                         *)
(* Conventions.                                                            *)
(*  - Text cells (position ids, names, cities, provinces, facility ids,    *)
(*    PT groups) are natural numbers; their order is the order pandas      *)
(*    sorts group keys by.                                                 *)
(*  - Amount cells are natural numbers.  A pandas float64 computed from    *)
(*    them is kept as a fraction with a kind tag (finite, inf, nan) and    *)
(*    the offset its rounding leaves it from the double nearest the        *)
(*    fraction; comparisons follow IEEE-754 (every comparison with nan is  *)
(*    false).                                                              *)
(*  - Column names are the source's: mr_pos, hco_province_name,            *)
(*    tyq2_target, ... in ffe_groundrules_test.py.  Those of               *)
(*    ffe_groundrules.py have the characters TLA+ does not allow           *)
(*    replaced: 省份 -> Province, 城市 -> City, 医院潜力 ->                *)
(*    Hospital_Potential, 医院编码 -> Hospital_Code, '24Q2 Final Target'   *)
(*    -> Final_Target_24Q2, '2023Q2 Actual' -> Actual_2023Q2, ...          *)
(***************************************************************************)
EXTENDS Integers, Sequences, FiniteSets, TLC

VARIABLES
    df_orig,            \* the dataset load_data returned
    evaluation_module,  \* application: the option the select box shows;
                        \* batch runner: module_name ("None" before the loop)
    pt_group_metrics,   \* the PT-group table of the last script run (<<>>: not bound)
    result_df,          \* the table of the last script run (<<>>: None)
    workbook,           \* the sheets written to the ExcelWriter so far
    module_index,       \* position of the loop in evaluation_modules (0: no loop)
    batch,              \* the batch loop: "off", "running", "saved" or "failed"
    output_file,        \* the workbook the closed ExcelWriter saved (<<>>: none)
    download_filename   \* the name of the file "Run Selected Module" saved
                        \* ("": not bound)

vars == <<df_orig, evaluation_module, pt_group_metrics, result_df,
          workbook, module_index, batch, output_file, download_filename>>

-----------------------------------------------------------------------------
(* Sequences and tables                                                    *)

Range(s) == {s[i] : i \in DOMAIN s}

RECURSIVE SumSeq(_)
SumSeq(s) == IF s = <<>> THEN 0 ELSE Head(s) + SumSeq(Tail(s))

\* Series.sum() of the column col(row) of a table.
ColSum(t, col(_)) == SumSeq([i \in DOMAIN t |-> col(t[i])])

\* Series.nunique() of the column col(row) of a table.
NUnique(t, col(_)) == Cardinality({col(t[i]) : i \in DOMAIN t})

\* Boolean-mask selection t[mask], in row order.
Where(t, P(_)) == SelectSeq(t, P)

\* Tuple order of group keys: pandas sorts groupby keys lexicographically.
LexLess(a, b) ==
    \E i \in 1..Len(a) :
        /\ a[i] < b[i]
        /\ \A j \in 1..(i - 1) : a[j] = b[j]

\* The sorted key list of a groupby (sort=True): ascending, one entry per key.
RECURSIVE SortKeys(_)
SortKeys(S) ==
    IF S = {} THEN <<>>
    ELSE LET m == CHOOSE x \in S : \A y \in S \ {x} : LexLess(x, y)
         IN  <<m>> \o SortKeys(S \ {m})

\* groupby(key): the keys observed in the table, in sorted order.
GroupKeys(t, key(_)) == SortKeys({key(t[i]) : i \in DOMAIN t})

\* The rows of one group, in table order.
Group(t, key(_), k) == SelectSeq(t, LAMBDA r : key(r) = k)

\* DataFrame.drop_duplicates(subset=key): keeps the first row of every key.
DropDuplicates(t, key(_)) ==
    LET keep == {i \in DOMAIN t : \A j \in 1..(i - 1) : key(t[j]) # key(t[i])}
        RECURSIVE Build(_)
        Build(i) == IF i > Len(t) THEN <<>>
                    ELSE (IF i \in keep THEN <<t[i]>> ELSE <<>>) \o Build(i + 1)
    IN  Build(1)

\* pandas' marker of a missing cell in a column of amounts (NaN).
NaN == -1

\* groupby(...)[col].idxmax(): per group the first row holding the largest
\* value of the column, missing cells skipped.  Returns the row of table t.
IdxMax(t, key(_), k, col(_)) ==
    LET idx  == {i \in DOMAIN t : key(t[i]) = k /\ col(t[i]) # NaN}
        best == CHOOSE i \in idx :
                    /\ \A j \in idx : col(t[j]) <= col(t[i])
                    /\ \A j \in idx : col(t[j]) = col(t[i]) => i <= j
    IN  t[best]

-----------------------------------------------------------------------------
(* float64 values computed from the amounts                                *)
(*                                                                         *)
(* A float64 is kept as the fraction n/d it would be without rounding,     *)
(* and u: the number of doubles by which the value the code computes lies  *)
(* above the double nearest to n/d (u = 0 for a quotient of two cells,     *)
(* which IEEE-754 rounds to nearest).  Amounts are far below 2^20, so two  *)
(* values with different fractions are ordered as their fractions are.     *)

Fin(n, d)     == [k |-> "fin", n |-> n, d |-> d, u |-> 0]
FinU(n, d, u) == [k |-> "fin", n |-> n, d |-> d, u |-> u]
Inf           == [k |-> "inf", n |-> 1, d |-> 0, u |-> 0]
NanF          == [k |-> "nan", n |-> 0, d |-> 0, u |-> 0]

\* a / b for two non-negative integer cells (numpy: x/0 = inf, 0/0 = nan).
Div(a, b) ==
    IF b # 0 THEN Fin(a, b)
    ELSE IF a > 0 THEN Inf ELSE NanF

\* The binary exponent of n/d: the e with 2^e <= n/d < 2^(e+1), for n, d > 0.
RECURSIVE Log2(_, _)
Log2(n, d) ==
    IF n >= 2 * d THEN 1 + Log2(n, 2 * d)
    ELSE IF n < d THEN Log2(2 * n, d) - 1
    ELSE 0

\* 2^k modulo m
Square(h, odd, m) == (h * h * (IF odd THEN 2 ELSE 1)) % m
RECURSIVE PowMod(_, _)
PowMod(k, m) ==
    IF k = 0 THEN 1 % m ELSE Square(PowMod(k \div 2, m), k % 2 = 1, m)

\* The error of the double nearest n/d, in d-ths of its last place: the
\* 53-bit significand is n * 2^(52 - e) / d rounded to an integer.
RoundingError(n, d) ==
    LET r == (n * PowMod(52 - Log2(n, d), d)) % d
    IN  IF r = 0 THEN 0 ELSE IF 2 * r < d THEN 0 - r ELSE d - r

\* num/den rounded to an integer.  On a tie the terms of second order decide
\* (sgn > 0: up, sgn < 0: down); without them the even significand is taken.
Nearest(num, den, sgn, parity) ==
    LET f == (2 * num + den) \div (2 * den)
    IN  IF (2 * num + den) % (2 * den) # 0 \/ sgn > 0 THEN f
        ELSE IF sgn < 0 THEN f - 1
        ELSE IF (parity + f) % 2 = 0 THEN f ELSE f - 1

\* The doubles between the one nearest (a * d) / n and a / y, for a > 0 and
\* y the double nearest n/d: the quotient is rounded a second time.
DivUlps(a, n, d) ==
    LET t  == RoundingError(n, d)
        ex == Log2(a * d, n)
        E  == Log2(n, d) - ex
        rg == (a * d * PowMod(52 - ex, n)) % n
        up == IF E > 0 THEN 2^E ELSE 1
        dn == IF E < 0 THEN 2^(0 - E) ELSE 1
    IN  IF t = 0 THEN 0
        ELSE Nearest(rg * n * dn - t * a * d * up, n * n * dn, 1, 0)
                 - (IF 2 * rg >= n THEN 1 ELSE 0)

\* a / y for a non-negative integer cell a and y a quotient of two cells.
DivF(a, y) ==
    CASE y.k = "nan" -> NanF
      [] y.k = "inf" -> Fin(0, 1)
      [] y.k = "fin" ->
             IF y.n = 0 \/ a = 0 THEN Div(a * y.d, y.n)
             ELSE FinU(a * y.d, y.n, DivUlps(a, y.n, y.d))

\* The doubles between the one nearest (n - d) / d and x - 1, for x the double
\* nearest n/d and n > 0: the difference is rounded a second time.  From 1/2
\* upwards x - 1 is exact and keeps the error of x, counted in the smaller
\* last place of the difference; below 1/2 the difference is rounded to a
\* multiple of 2^-53, a tie to the even significand.
Sub1Ulps(n, d) ==
    LET t   == RoundingError(n, d)
        m   == IF n > d THEN n - d ELSE d - n
        e2  == Log2(m, d)
        t2  == RoundingError(m, d)
        j   == 0 - 1 - Log2(n, d)
        par == ((((m * PowMod(53, 2 * d)) % (2 * d)) + t2 + 2 * d) % (2 * d)) \div d
    IN  IF t = 0 THEN 0
        ELSE IF n > d THEN (t * 2^(Log2(n, d) - e2) - t2) \div d
        ELSE IF 2 * n >= d THEN (t * 2^(0 - 1 - e2) + t2) \div d
        ELSE 0 - Nearest(0 - (t2 * 2^j + t), d * 2^j, 0, par)

\* x - 1 for x a quotient of two cells
Sub1(x) ==
    IF x.k # "fin" THEN x
    ELSE IF x.n = 0 THEN Fin(0 - x.d, x.d)
    ELSE FinU(x.n - x.d, x.d, Sub1Ulps(x.n, x.d))

\* x * 4: exact in binary floating point
Times4(x) == IF x.k = "fin" THEN FinU(x.n * 4, x.d, x.u) ELSE x

\* The doubles between the one nearest 7n / 10d and 0.7 * y, for y the double
\* nearest n/d.  The literal 0.7 is the double 0.7 - 0.4 * 2^-53.
Times07Ulps(n, d) ==
    LET t   == RoundingError(n, d)
        ex  == Log2(7 * n, 10 * d)
        E   == Log2(n, d) - ex
        rg  == (7 * n * PowMod(52 - ex, 10 * d)) % (10 * d)
        par == ((7 * n * PowMod(52 - ex, 20 * d)) % (20 * d)) \div (10 * d)
        W   == IF ex >= 0 THEN 2^(1 + ex) ELSE 1
        A   == IF ex >= 0 THEN 4 * n ELSE 4 * n * 2^(0 - 1 - ex)
        num == rg * W + 7 * t * (2^E) * W - A
        den == 10 * d * W
        pw2 == IF ex >= 0 THEN 7 * n = 10 * d * 2^ex ELSE 7 * n * 2^(0 - ex) = 10 * d
    IN  IF pw2 /\ num < 0 THEN Nearest(2 * num, den, 0 - t, 0)
        ELSE Nearest(num, den, 0 - t, par)
                 - (IF 2 * rg >= 10 * d THEN 1 ELSE 0)

\* 0.7 * y for y a quotient of two cells
Times07(y) ==
    IF y.k # "fin" THEN y
    ELSE IF y.n = 0 THEN Fin(0, 1)
    ELSE FinU(7 * y.n, 10 * y.d, Times07Ulps(y.n, y.d))

\* x < y
Lt(x, y) ==
    CASE x.k = "nan" \/ y.k = "nan" -> FALSE
      [] x.k = "inf"                -> FALSE
      [] y.k = "inf"                -> TRUE
      [] OTHER                      ->
             \/ x.n * y.d < y.n * x.d
             \/ x.n * y.d = y.n * x.d /\ x.u < y.u

\* x <= y
Le(x, y) ==
    CASE x.k = "nan" \/ y.k = "nan" -> FALSE
      [] y.k = "inf"                -> TRUE
      [] x.k = "inf"                -> FALSE
      [] OTHER                      ->
             \/ x.n * y.d < y.n * x.d
             \/ x.n * y.d = y.n * x.d /\ x.u <= y.u

\* Series.between(lo, hi), inclusive="both"
Between(x, lo, hi) == Le(lo, x) /\ Le(x, hi)

YesNo(b) == IF b THEN "Yes" ELSE "No"

-----------------------------------------------------------------------------
(* Rule 4.1  evaluate_mr_city_coverage                                     *)

mr_city_key(r) == <<r.mr_pos, r.mr_name, r.hco_province_name, r.hco_city_name, r.mr_base_city_name>>
mr_pos_key(r)  == <<r.mr_pos>>

\* groupby([mr_pos, mr_name, hco_province_name, hco_city_name, mr_base_city_name])[[sales, potential]].sum()
mr_city_summary(df) ==
    LET keys == GroupKeys(df, mr_city_key)
    IN  [i \in DOMAIN keys |->
            LET g == Group(df, mr_city_key, keys[i])
            IN  [mr_pos             |-> keys[i][1],
                 mr_name            |-> keys[i][2],
                 hco_province_name           |-> keys[i][3],
                 hco_city_name               |-> keys[i][4],
                 mr_base_city_name       |-> keys[i][5],
                 r6m_actual_sales   |-> ColSum(g, LAMBDA r : r.r6m_actual_sales),
                 hco_potential_value |-> ColSum(g, LAMBDA r : r.hco_potential_value)]]

\* Variant: the threshold read as "3 or more".
multi_city_coverage_from_3(x) == YesNo(x >= 3)

\* lambda x: 'Yes' if x > 3 else 'No'
multi_city_coverage(x) == YesNo(x > 3)

\* Variant: the second assignment (top potential city) left out.
base_city_aligned_sales_only(base, top_sales, top_potential) ==
    YesNo(base = top_sales)

\* base_city_aligned: 'No', then 'Yes' where the base city is either top city
base_city_aligned(base, top_sales, top_potential) ==
    YesNo(base = top_sales \/ base = top_potential)

\* mr_city_summary.loc[groupby(mr_pos)[sales].idxmax()][[mr_pos, hco_city_name]]
mr_top_sales_city(summary, pos) ==
    IdxMax(summary, mr_pos_key, <<pos>>, LAMBDA r : r.r6m_actual_sales).hco_city_name

\* mr_city_summary.loc[groupby(mr_pos)[potential].idxmax()][[mr_pos, hco_city_name]]
mr_top_potential_city(summary, pos) ==
    IdxMax(summary, mr_pos_key, <<pos>>, LAMBDA r : r.hco_potential_value).hco_city_name

\* One row of the result: the summary row with the per-MR columns merged in
\* (the three left merges on mr_pos) and the alignment flag.
mr_evaluation_row(summary, row) ==
    LET mine  == Group(summary, mr_pos_key, <<row.mr_pos>>)
        count == NUnique(mine, LAMBDA r : r.hco_city_name)
        top_s == mr_top_sales_city(summary, row.mr_pos)
        top_p == mr_top_potential_city(summary, row.mr_pos)
    IN  [mr_pos              |-> row.mr_pos,
         mr_name             |-> row.mr_name,
         mr_base_city_name        |-> row.mr_base_city_name,
         hco_province_name            |-> row.hco_province_name,
         hco_city_name                |-> row.hco_city_name,
         r6m_actual_sales    |-> row.r6m_actual_sales,
         hco_potential_value  |-> row.hco_potential_value,
         num_cities_covered  |-> count,
         multi_city_coverage |-> multi_city_coverage(count),
         top_sales_city      |-> top_s,
         top_potential_city  |-> top_p,
         base_city_aligned   |-> base_city_aligned(row.mr_base_city_name, top_s, top_p)]

evaluate_mr_city_coverage(df) ==
    LET summary == mr_city_summary(df)
    IN  [i \in DOMAIN summary |-> mr_evaluation_row(summary, summary[i])]

-----------------------------------------------------------------------------
(* Rule 4.7  evaluate_dm_city_coverage                                     *)

dm_city_key(r) ==
    <<r.dm_pos, r.dm_name, r.dm_base_province_name, r.hco_province_name, r.hco_city_name, r.dm_base_city_name>>
dm_pos_key(r)   == <<r.dm_pos>>
dm_dedup_key(r) == <<r.dm_pos, r.hco_city_name, r.hco_cd>>

\* Variant: the potential summed over all rows, as the sales are.
dm_potential_rows_all(df) == df

\* drop_duplicates(subset=[dm_pos, hco_city_name, hco_cd]): the rows whose potential counts
dm_potential_rows(df) == DropDuplicates(df, dm_dedup_key)

\* sales_summary.merge(potential_summary, how='outer'): one row per key of either
\* summary, keys sorted; a cell is missing when its summary lacks the key.
dm_city_summary(df) ==
    LET dedup == dm_potential_rows(df)
        keys  == SortKeys({dm_city_key(df[i]) : i \in DOMAIN df}
                          \cup {dm_city_key(dedup[i]) : i \in DOMAIN dedup})
    IN  [i \in DOMAIN keys |->
            LET gs == Group(df, dm_city_key, keys[i])
                gp == Group(dedup, dm_city_key, keys[i])
            IN  [dm_pos             |-> keys[i][1],
                 dm_name            |-> keys[i][2],
                 dm_base_province_name   |-> keys[i][3],
                 hco_province_name           |-> keys[i][4],
                 hco_city_name               |-> keys[i][5],
                 dm_base_city_name       |-> keys[i][6],
                 r6m_actual_sales   |->
                     IF gs = <<>> THEN NaN
                     ELSE ColSum(gs, LAMBDA r : r.r6m_actual_sales),
                 hco_potential_value |->
                     IF gp = <<>> THEN NaN
                     ELSE ColSum(gp, LAMBDA r : r.hco_potential_value)]]

\* lambda row: 'Yes' if row[base province] != row[hco_province_name] else 'No'
cross_province(base_province, province) == YesNo(base_province # province)

\* Variant: 'Yes' only when every row of the position is cross-province.
cross_province_all_every(flags) == YesNo(flags = {"Yes"})

\* lambda x: 'Yes' if 'Yes' in x.values else 'No'
cross_province_all(flags) == YesNo("Yes" \in flags)

\* One row of the result: the summary row with the per-DM columns merged in.
dm_evaluation_row(summary, row) ==
    LET mine  == Group(summary, dm_pos_key, <<row.dm_pos>>)
        count == NUnique(mine, LAMBDA r : r.hco_city_name)
        top_s == IdxMax(summary, dm_pos_key, <<row.dm_pos>>,
                        LAMBDA r : r.r6m_actual_sales).hco_city_name
        top_p == IdxMax(summary, dm_pos_key, <<row.dm_pos>>,
                        LAMBDA r : r.hco_potential_value).hco_city_name
    IN  [dm_pos             |-> row.dm_pos,
         dm_name            |-> row.dm_name,
         dm_base_city_name       |-> row.dm_base_city_name,
         dm_base_province_name   |-> row.dm_base_province_name,
         hco_province_name           |-> row.hco_province_name,
         hco_city_name               |-> row.hco_city_name,
         r6m_actual_sales   |-> row.r6m_actual_sales,
         hco_potential_value |-> row.hco_potential_value,
         num_cities_covered |-> count,
         top_sales_city     |-> top_s,
         top_potential_city |-> top_p,
         base_city_aligned  |-> base_city_aligned(row.dm_base_city_name, top_s, top_p),
         cross_province     |-> cross_province(row.dm_base_province_name, row.hco_province_name),
         cross_province_all |->
             cross_province_all(
                 {cross_province(mine[j].dm_base_province_name, mine[j].hco_province_name)
                      : j \in DOMAIN mine})]

evaluate_dm_city_coverage(df) ==
    LET summary == dm_city_summary(df)
    IN  [i \in DOMAIN summary |-> dm_evaluation_row(summary, summary[i])]

-----------------------------------------------------------------------------
(* Rule 4.8  evaluate_rm_coverage                                          *)

rm_province_key(r) ==
    <<r.rm_position_cd, r.rm_name, r.rm_base_city_name, r.rm_base_province_name, r.hco_province_name>>
rm_pos_key(r)   == <<r.rm_position_cd>>
rm_dedup_key(r) == <<r.rm_position_cd, r.hco_province_name, r.hco_cd>>

\* drop_duplicates(subset=[rm_position_cd, hco_province_name, hco_cd])
rm_potential_rows(df) == DropDuplicates(df, rm_dedup_key)

rm_province_summary(df) ==
    LET dedup == rm_potential_rows(df)
        keys  == SortKeys({rm_province_key(df[i]) : i \in DOMAIN df}
                          \cup {rm_province_key(dedup[i]) : i \in DOMAIN dedup})
    IN  [i \in DOMAIN keys |->
            LET gs == Group(df, rm_province_key, keys[i])
                gp == Group(dedup, rm_province_key, keys[i])
            IN  [rm_position_cd             |-> keys[i][1],
                 rm_name            |-> keys[i][2],
                 rm_base_city_name       |-> keys[i][3],
                 rm_base_province_name   |-> keys[i][4],
                 hco_province_name           |-> keys[i][5],
                 r6m_actual_sales   |->
                     IF gs = <<>> THEN NaN
                     ELSE ColSum(gs, LAMBDA r : r.r6m_actual_sales),
                 hco_potential_value |->
                     IF gp = <<>> THEN NaN
                     ELSE ColSum(gp, LAMBDA r : r.hco_potential_value)]]

\* Variant: the threshold read as "more than 2".
multiple_rms_more_than_2(x) == YesNo(x > 2)

\* lambda x: 'Yes' if x >= 2 else 'No'
multiple_rms(x) == YesNo(x >= 2)

\* One row of the result: the summary row with the per-RM and per-province
\* columns merged in.
rm_evaluation_row(summary, row) ==
    LET mine  == Group(summary, rm_pos_key, <<row.rm_position_cd>>)
        count == NUnique(mine, LAMBDA r : r.hco_province_name)
        top_s == IdxMax(summary, rm_pos_key, <<row.rm_position_cd>>,
                        LAMBDA r : r.r6m_actual_sales).hco_province_name
        top_p == IdxMax(summary, rm_pos_key, <<row.rm_position_cd>>,
                        LAMBDA r : r.hco_potential_value).hco_province_name
        here  == Where(summary, LAMBDA r : r.hco_province_name = row.hco_province_name)
    IN  [rm_position_cd                 |-> row.rm_position_cd,
         rm_name                |-> row.rm_name,
         rm_base_city_name           |-> row.rm_base_city_name,
         rm_base_province_name       |-> row.rm_base_province_name,
         hco_province_name               |-> row.hco_province_name,
         r6m_actual_sales       |-> row.r6m_actual_sales,
         hco_potential_value     |-> row.hco_potential_value,
         num_provinces_covered  |-> count,
         top_sales_province     |-> top_s,
         top_potential_province |-> top_p,
         base_province_aligned  |->
             base_city_aligned(row.rm_base_province_name, top_s, top_p),
         cross_province         |->
             cross_province(row.rm_base_province_name, row.hco_province_name),
         cross_province_all     |->
             cross_province_all(
                 {cross_province(mine[j].rm_base_province_name, mine[j].hco_province_name)
                      : j \in DOMAIN mine}),
         multiple_rms           |-> multiple_rms(NUnique(here, LAMBDA r : r.rm_position_cd))]

evaluate_rm_coverage(df) ==
    LET summary == rm_province_summary(df)
    IN  [i \in DOMAIN summary |-> rm_evaluation_row(summary, summary[i])]

-----------------------------------------------------------------------------
(* Rule 4.2  check_personnel_deployment                                    *)

province_key(r) == <<r.hco_province_name>>

\* groupby(hco_province_name).agg(sum, sum, nunique) with productivity and growth_rate
province_stats(df) ==
    LET keys == GroupKeys(df, province_key)
    IN  [i \in DOMAIN keys |->
            LET g      == Group(df, province_key, keys[i])
                actual == ColSum(g, LAMBDA r : r.lyq2_actual_sales)
                target == ColSum(g, LAMBDA r : r.tyq2_target)
                count  == NUnique(g, LAMBDA r : r.mr_pos)
            IN  [hco_province_name          |-> keys[i][1],
                 lyq2_actual_sales     |-> actual,
                 tyq2_target |-> target,
                 mr_pos            |-> count,
                 productivity      |-> Times4(Div(target, count)),
                 growth_rate       |-> Sub1(Div(target, actual))]]

\* Variant: the overall head count taken as the distinct MRs of the dataset.
overall_avg_productivity_distinct(df) ==
    Times4(Div(ColSum(df, LAMBDA r : r.tyq2_target),
              NUnique(df, LAMBDA r : r.mr_pos)))

\* (total target / total of the per-province MR counts) * 4
overall_avg_productivity(df) ==
    LET stats == province_stats(df)
    IN  Times4(Div(ColSum(stats, LAMBDA r : r.tyq2_target),
                  ColSum(stats, LAMBDA r : r.mr_pos)))

\* (total target / df['lyq2_actual_sales'].sum()) - 1
overall_avg_growth_rate(df) ==
    LET stats == province_stats(df)
    IN  Sub1(Div(ColSum(stats, LAMBDA r : r.tyq2_target),
                 ColSum(df, LAMBDA r : r.lyq2_actual_sales)))

\* Variant: the growth test written as "not (growth_rate >= overall)".
low_productivity_mask_not_ge(productivity, growth_rate, avg_productivity, avg_growth_rate) ==
    IF Lt(productivity, avg_productivity) /\ ~Le(avg_growth_rate, growth_rate)
    THEN "Y" ELSE "N"

\* Variant: both tests written with <=.
low_productivity_mask_inclusive(productivity, growth_rate, avg_productivity, avg_growth_rate) ==
    IF Le(productivity, avg_productivity) /\ Le(growth_rate, avg_growth_rate)
    THEN "Y" ELSE "N"

\* 'N', then 'Y' under low_productivity_mask
low_productivity_mask(productivity, growth_rate, avg_productivity, avg_growth_rate) ==
    IF Lt(productivity, avg_productivity) /\ Lt(growth_rate, avg_growth_rate)
    THEN "Y" ELSE "N"

check_personnel_deployment(df) ==
    LET stats      == province_stats(df)
        avg_prod   == overall_avg_productivity(df)
        avg_growth == overall_avg_growth_rate(df)
    IN  [i \in DOMAIN stats |->
            [hco_province_name          |-> stats[i].hco_province_name,
             lyq2_actual_sales     |-> stats[i].lyq2_actual_sales,
             tyq2_target |-> stats[i].tyq2_target,
             mr_pos            |-> stats[i].mr_pos,
             productivity      |-> stats[i].productivity,
             growth_rate       |-> stats[i].growth_rate,
             violation         |->
                 low_productivity_mask(stats[i].productivity, stats[i].growth_rate,
                                       avg_prod, avg_growth)]]

-----------------------------------------------------------------------------
(* Rule 4.3  evaluate_dm_deployment                                        *)

dm_span_key(r) == <<r.dm_pos, r.dm_name>>

\* lambda x: 'Yes' if 6 <= x <= 10 else 'No'
dm_span_range_check(x) == YesNo(6 <= x /\ x <= 10)

\* df[target].sum() / df[dm_pos].nunique()
overall_dm_productivity(df) ==
    Div(ColSum(df, LAMBDA r : r.tyq2_target), NUnique(df, LAMBDA r : r.dm_pos))

\* Variant: the productivity comparison read as "at most 70%".
dm_low_span_mask_inclusive(span, productivity, overall) ==
    YesNo(span < 7 /\ Le(Fin(productivity, 1), Times07(overall)))

\* 'No', then 'Yes' under (span < 7) & (productivity < 0.7 * overall)
dm_low_span_mask(span, productivity, overall) ==
    YesNo(span < 7 /\ Lt(Fin(productivity, 1), Times07(overall)))

\* groupby([dm_pos, dm_name])[mr_pos].nunique(), for one group
dm_span_of_control(df, key) ==
    NUnique(Group(df, dm_span_key, key), LAMBDA r : r.mr_pos)

evaluate_dm_deployment(df) ==
    LET keys    == GroupKeys(df, dm_span_key)
        overall == overall_dm_productivity(df)
    IN  [i \in DOMAIN keys |->
            LET span == dm_span_of_control(df, keys[i])
                prod == ColSum(Group(df, dm_pos_key, <<keys[i][1]>>),
                               LAMBDA r : r.tyq2_target)
            IN  [dm_pos           |-> keys[i][1],
                 dm_name          |-> keys[i][2],
                 span_of_control  |-> span,
                 span_range_check |-> dm_span_range_check(span),
                 productivity     |-> prod,
                 violation        |->
                     dm_low_span_mask(span, prod, overall)]]

-----------------------------------------------------------------------------
(* Rule 4.4  evaluate_rm_deployment                                        *)

rm_span_key(r) == <<r.rm_position_cd, r.rm_name>>

\* Variant: the DM range 6..10 copied to the RM rule.
rm_span_range_check_as_dm(x) == YesNo(6 <= x /\ x <= 10)

\* lambda x: 'Yes' if 6 <= x <= 8 else 'No'
rm_span_range_check(x) == YesNo(6 <= x /\ x <= 8)

\* df[target].sum() / df[rm_position_cd].nunique()
overall_rm_productivity(df) ==
    Div(ColSum(df, LAMBDA r : r.tyq2_target), NUnique(df, LAMBDA r : r.rm_position_cd))

\* Variant: the DM span threshold 7 copied to the RM rule.
rm_low_span_mask_as_dm(span, productivity, overall) ==
    YesNo(span < 7 /\ Lt(Fin(productivity, 1), Times07(overall)))

\* 'No', then 'Yes' under (span < 6) & (productivity < 0.7 * overall)
rm_low_span_mask(span, productivity, overall) ==
    YesNo(span < 6 /\ Lt(Fin(productivity, 1), Times07(overall)))

evaluate_rm_deployment(df) ==
    LET keys    == GroupKeys(df, rm_span_key)
        overall == overall_rm_productivity(df)
    IN  [i \in DOMAIN keys |->
            LET span == NUnique(Group(df, rm_span_key, keys[i]), LAMBDA r : r.dm_pos)
                prod == ColSum(Group(df, rm_pos_key, <<keys[i][1]>>),
                               LAMBDA r : r.tyq2_target)
            IN  [rm_position_cd           |-> keys[i][1],
                 rm_name          |-> keys[i][2],
                 span_of_control  |-> span,
                 span_range_check |-> rm_span_range_check(span),
                 productivity     |-> prod,
                 violation        |->
                     rm_low_span_mask(span, prod, overall)]]

-----------------------------------------------------------------------------
(* Rule 4.5  calculate_pt_group_metrics                                    *)

pt_group_key(r) == <<r.pt_group>>

\* Variant: the rows of the group are counted.
pt_group_count_rows(g) == Len(g)

\* ['mr_pos'].nunique() of one PT group's rows
pt_group_count(g) == NUnique(g, LAMBDA r : r.mr_pos)

calculate_pt_group_metrics(df) ==
    LET keys == GroupKeys(df, pt_group_key)
    IN  [i \in DOMAIN keys |->
            LET g      == Group(df, pt_group_key, keys[i])
                people == pt_group_count(g)
                a23q1  == ColSum(g, LAMBDA r : r.lyq1_actual_sales)
                a23q2  == ColSum(g, LAMBDA r : r.lyq2_actual_sales)
                a24q1  == ColSum(g, LAMBDA r : r.tyq1_actual_sales)
                target == ColSum(g, LAMBDA r : r.tyq2_target)
            IN  [pt_group              |-> keys[i][1],
                 lyq1_actual_sales         |-> a23q1,
                 lyq2_actual_sales         |-> a23q2,
                 tyq1_actual_sales         |-> a24q1,
                 tyq2_target     |-> target,
                 num_people            |-> people,
                 avg_productivity_24Q2 |-> Div(target, people),
                 avg_productivity_24Q1 |-> Div(a24q1, people),
                 growth_rate_24Q2      |-> Sub1(Div(target, a23q2)),
                 growth_rate_24Q1      |-> Sub1(Div(a24q1, a23q1))]]

-----------------------------------------------------------------------------
(* Rule 4.6  evaluate_mr_performance                                       *)

mr_name_key(r) == <<r.mr_pos, r.mr_name>>
mr_pt_key(r)   == <<r.mr_pos, r.pt_group>>

RECURSIVE Flatten(_)
Flatten(ss) == IF ss = <<>> THEN <<>> ELSE Head(ss) \o Flatten(Tail(ss))

\* Variant: an index of exactly 0.5 counted as low.
productivity_index_low_inclusive(index) == YesNo(Le(index, Fin(1, 2)))

\* (index < 0.5) -> 'Yes' / 'No'
productivity_index_low(index) == YesNo(Lt(index, Fin(1, 2)))

\* Variant: the band read as 0.5 <= index < 0.7.
growth_low_and_productivity_index_medium_open(growth, growth_rate, index) ==
    YesNo(Lt(growth, growth_rate) /\ Le(Fin(1, 2), index) /\ Lt(index, Fin(7, 10)))

\* (growth < group growth rate) & index.between(0.5, 0.7) -> 'Yes' / 'No'
growth_low_and_productivity_index_medium(growth, growth_rate, index) ==
    YesNo(Lt(growth, growth_rate) /\ Between(index, Fin(1, 2), Fin(7, 10)))

\* One row of groupby([mr_pos, mr_name])[four columns].sum(): the key and the
\* sums over the rows g of the group.
mr_group_sums(key, g) ==
    [mr_pos            |-> key[1],
     mr_name           |-> key[2],
     lyq1_actual_sales     |-> ColSum(g, LAMBDA r : r.lyq1_actual_sales),
     lyq2_actual_sales     |-> ColSum(g, LAMBDA r : r.lyq2_actual_sales),
     tyq1_actual_sales     |-> ColSum(g, LAMBDA r : r.tyq1_actual_sales),
     tyq2_target |-> ColSum(g, LAMBDA r : r.tyq2_target)]

\* groupby([mr_pos, mr_name])[four columns].sum().reset_index()
mr_sums(df) ==
    LET keys == GroupKeys(df, mr_name_key)
    IN  [i \in DOMAIN keys |->
            mr_group_sums(keys[i], Group(df, mr_name_key, keys[i]))]

\* The rows a left merge on mr_pos makes of one row of sums: one per matching
\* pair, in the pairs' order.
mr_pt_group_rows(row, pairs) ==
    LET match == Where(pairs, LAMBDA r : r.mr_pos = row.mr_pos)
    IN  [j \in DOMAIN match |-> row @@ [pt_group |-> match[j].pt_group]]

\* .merge(df[[mr_pos, pt_group]].drop_duplicates(), on=mr_pos, how='left'):
\* one row per PT group of the MR position, in order of first appearance.
mr_with_pt_group(df) ==
    LET sums == mr_sums(df)
    IN  Flatten([i \in DOMAIN sums |->
            mr_pt_group_rows(sums[i], DropDuplicates(df, mr_pt_key))])

\* The metric rows a left merge on pt_group matches with a group; without a
\* match the metric cells are missing.
mr_metric_cells(metrics, group) ==
    LET match == Where(metrics, LAMBDA m : m.pt_group = group)
    IN  IF match = <<>>
        THEN <<[avg_productivity_24Q2 |-> NanF, growth_rate_24Q2 |-> NanF,
                avg_productivity_24Q1 |-> NanF, growth_rate_24Q1 |-> NanF]>>
        ELSE match

\* The rows the two merges with pt_group_metrics make of one row: one per pair
\* of matching metric rows (the Q2 columns first, then the Q1 columns).
mr_metric_rows(row, cells) ==
    Flatten([a \in DOMAIN cells |->
        [b \in DOMAIN cells |->
            row @@
            [avg_productivity_24Q2 |-> cells[a].avg_productivity_24Q2,
             growth_rate_24Q2      |-> cells[a].growth_rate_24Q2,
             avg_productivity_24Q1 |-> cells[b].avg_productivity_24Q1,
             growth_rate_24Q1      |-> cells[b].growth_rate_24Q1]]])

\* mr_data after the two merges with pt_group_metrics on pt_group (how='left').
mr_with_metrics(df, metrics) ==
    LET left == mr_with_pt_group(df)
    IN  Flatten([i \in DOMAIN left |->
            mr_metric_rows(left[i], mr_metric_cells(metrics, left[i].pt_group))])

\* index = current / group average productivity
productivity_index(current, avg_productivity) == DivF(current, avg_productivity)

\* growth = current / prior year - 1
mr_growth(current, prior_year) == Sub1(Div(current, prior_year))

\* Variant: the Q2 index taken against the Q1 productivity of the group and
\* the Q1 index against the Q2 productivity.
mr_performance_row_quarters_swapped(row) ==
    row @@
    [Q2_Productivity_Index |->
         productivity_index(row.tyq2_target, row.avg_productivity_24Q1),
     Q2_Growth |->
         mr_growth(row.tyq2_target, row.lyq2_actual_sales),
     Q2_Productivity_Index_Low |->
         productivity_index_low(
             productivity_index(row.tyq2_target, row.avg_productivity_24Q1)),
     Q2_Growth_Low_and_Productivity_Index_Medium |->
         growth_low_and_productivity_index_medium(
             mr_growth(row.tyq2_target, row.lyq2_actual_sales),
             row.growth_rate_24Q2,
             productivity_index(row.tyq2_target, row.avg_productivity_24Q1)),
     Q1_Productivity_Index |->
         productivity_index(row.tyq1_actual_sales, row.avg_productivity_24Q2),
     Q1_Growth |->
         mr_growth(row.tyq1_actual_sales, row.lyq1_actual_sales),
     Q1_Productivity_Index_Low |->
         productivity_index_low(
             productivity_index(row.tyq1_actual_sales, row.avg_productivity_24Q2)),
     Q1_Growth_Low_and_Productivity_Index_Medium |->
         growth_low_and_productivity_index_medium(
             mr_growth(row.tyq1_actual_sales, row.lyq1_actual_sales),
             row.growth_rate_24Q1,
             productivity_index(row.tyq1_actual_sales, row.avg_productivity_24Q2))]

\* The index, growth and flag columns of one merged row, for Q2 and for Q1.
mr_performance_row(row) ==
    row @@
    [Q2_Productivity_Index |->
         productivity_index(row.tyq2_target, row.avg_productivity_24Q2),
     Q2_Growth |->
         mr_growth(row.tyq2_target, row.lyq2_actual_sales),
     Q2_Productivity_Index_Low |->
         productivity_index_low(
             productivity_index(row.tyq2_target, row.avg_productivity_24Q2)),
     Q2_Growth_Low_and_Productivity_Index_Medium |->
         growth_low_and_productivity_index_medium(
             mr_growth(row.tyq2_target, row.lyq2_actual_sales),
             row.growth_rate_24Q2,
             productivity_index(row.tyq2_target, row.avg_productivity_24Q2)),
     Q1_Productivity_Index |->
         productivity_index(row.tyq1_actual_sales, row.avg_productivity_24Q1),
     Q1_Growth |->
         mr_growth(row.tyq1_actual_sales, row.lyq1_actual_sales),
     Q1_Productivity_Index_Low |->
         productivity_index_low(
             productivity_index(row.tyq1_actual_sales, row.avg_productivity_24Q1)),
     Q1_Growth_Low_and_Productivity_Index_Medium |->
         growth_low_and_productivity_index_medium(
             mr_growth(row.tyq1_actual_sales, row.lyq1_actual_sales),
             row.growth_rate_24Q1,
             productivity_index(row.tyq1_actual_sales, row.avg_productivity_24Q1))]

evaluate_mr_performance(df, metrics) ==
    LET mr_data == mr_with_metrics(df, metrics)
    IN  [i \in DOMAIN mr_data |-> mr_performance_row(mr_data[i])]

-----------------------------------------------------------------------------
(* The rules of ffe_groundrules.py                                         *)
(*                                                                         *)
(* The same eight functions over the column names of ffe_groundrules.py,   *)
(* each operator under the name of its counterpart with _groundrules       *)
(* appended.                                                               *)

(* Rule 4.1 of ffe_groundrules.py: evaluate_mr_city_coverage               *)

mr_city_key_groundrules(r) == <<r.MR_Pos, r.MR_Name, r.Province, r.City, r.MR_Base_City>>

\* groupby([MR_Pos, MR_Name, 省份, 城市, MR_Base City])[[sales, potential]].sum()
mr_city_summary_groundrules(df) ==
    LET keys == GroupKeys(df, mr_city_key_groundrules)
    IN  [i \in DOMAIN keys |->
            LET g == Group(df, mr_city_key_groundrules, keys[i])
            IN  [MR_Pos             |-> keys[i][1],
                 MR_Name            |-> keys[i][2],
                 Province           |-> keys[i][3],
                 City               |-> keys[i][4],
                 MR_Base_City       |-> keys[i][5],
                 R6M_Sales_Actual   |-> ColSum(g, LAMBDA r : r.R6M_Sales_Actual),
                 Hospital_Potential |-> ColSum(g, LAMBDA r : r.Hospital_Potential)]]

\* lambda x: 'Yes' if x > 3 else 'No'
multi_city_coverage_groundrules(x) == YesNo(x > 3)

\* base_city_aligned: 'No', then 'Yes' where the base city is either top city
base_city_aligned_groundrules(base, top_sales, top_potential) ==
    YesNo(base = top_sales \/ base = top_potential)

\* mr_city_summary.loc[groupby(MR_Pos)[sales].idxmax()][[MR_Pos, 城市]]
mr_top_sales_city_groundrules(summary, pos) ==
    IdxMax(summary, LAMBDA rec : <<rec.MR_Pos>>, <<pos>>, LAMBDA r : r.R6M_Sales_Actual).City

\* mr_city_summary.loc[groupby(MR_Pos)[potential].idxmax()][[MR_Pos, 城市]]
mr_top_potential_city_groundrules(summary, pos) ==
    IdxMax(summary, LAMBDA rec : <<rec.MR_Pos>>, <<pos>>, LAMBDA r : r.Hospital_Potential).City

\* One row of the result: the summary row with the per-MR columns merged in
\* (the three left merges on MR_Pos) and the alignment flag.
mr_evaluation_row_groundrules(summary, row) ==
    LET mine  == Group(summary, LAMBDA rec : <<rec.MR_Pos>>, <<row.MR_Pos>>)
        count == NUnique(mine, LAMBDA r : r.City)
        top_s == mr_top_sales_city_groundrules(summary, row.MR_Pos)
        top_p == mr_top_potential_city_groundrules(summary, row.MR_Pos)
    IN  [MR_Pos              |-> row.MR_Pos,
         MR_Name             |-> row.MR_Name,
         MR_Base_City        |-> row.MR_Base_City,
         Province            |-> row.Province,
         City                |-> row.City,
         R6M_Sales_Actual    |-> row.R6M_Sales_Actual,
         Hospital_Potential  |-> row.Hospital_Potential,
         num_cities_covered  |-> count,
         multi_city_coverage |-> multi_city_coverage_groundrules(count),
         top_sales_city      |-> top_s,
         top_potential_city  |-> top_p,
         base_city_aligned   |-> base_city_aligned_groundrules(row.MR_Base_City, top_s, top_p)]

evaluate_mr_city_coverage_groundrules(df) ==
    LET summary == mr_city_summary_groundrules(df)
    IN  [i \in DOMAIN summary |-> mr_evaluation_row_groundrules(summary, summary[i])]

-----------------------------------------------------------------------------
(* Rule 4.7 of ffe_groundrules.py: evaluate_dm_city_coverage               *)

dm_city_key_groundrules(r) ==
    <<r.DM_POS, r.DM_Name, r.DM_Base_Province, r.Province, r.City, r.DM_Base_City>>
dm_dedup_key_groundrules(r) == <<r.DM_POS, r.City, r.Hospital_Code>>

\* drop_duplicates(subset=[DM_POS, 城市, 医院编码]): the rows whose potential counts
dm_potential_rows_groundrules(df) == DropDuplicates(df, dm_dedup_key_groundrules)

\* sales_summary.merge(potential_summary, how='outer'): one row per key of either
\* summary, keys sorted; a cell is missing when its summary lacks the key.
dm_city_summary_groundrules(df) ==
    LET dedup == dm_potential_rows_groundrules(df)
        keys  == SortKeys({dm_city_key_groundrules(df[i]) : i \in DOMAIN df}
                          \cup {dm_city_key_groundrules(dedup[i]) : i \in DOMAIN dedup})
    IN  [i \in DOMAIN keys |->
            LET gs == Group(df, dm_city_key_groundrules, keys[i])
                gp == Group(dedup, dm_city_key_groundrules, keys[i])
            IN  [DM_POS             |-> keys[i][1],
                 DM_Name            |-> keys[i][2],
                 DM_Base_Province   |-> keys[i][3],
                 Province           |-> keys[i][4],
                 City               |-> keys[i][5],
                 DM_Base_City       |-> keys[i][6],
                 R6M_Sales_Actual   |->
                     IF gs = <<>> THEN NaN
                     ELSE ColSum(gs, LAMBDA r : r.R6M_Sales_Actual),
                 Hospital_Potential |->
                     IF gp = <<>> THEN NaN
                     ELSE ColSum(gp, LAMBDA r : r.Hospital_Potential)]]

\* lambda row: 'Yes' if row[base province] != row[省份] else 'No'
cross_province_groundrules(base_province, province) == YesNo(base_province # province)

\* lambda x: 'Yes' if 'Yes' in x.values else 'No'
cross_province_all_groundrules(flags) == YesNo("Yes" \in flags)

\* One row of the result: the summary row with the per-DM columns merged in.
dm_evaluation_row_groundrules(summary, row) ==
    LET mine  == Group(summary, LAMBDA rec : <<rec.DM_POS>>, <<row.DM_POS>>)
        count == NUnique(mine, LAMBDA r : r.City)
        top_s == IdxMax(summary, LAMBDA rec : <<rec.DM_POS>>, <<row.DM_POS>>,
                        LAMBDA r : r.R6M_Sales_Actual).City
        top_p == IdxMax(summary, LAMBDA rec : <<rec.DM_POS>>, <<row.DM_POS>>,
                        LAMBDA r : r.Hospital_Potential).City
    IN  [DM_POS             |-> row.DM_POS,
         DM_Name            |-> row.DM_Name,
         DM_Base_City       |-> row.DM_Base_City,
         DM_Base_Province   |-> row.DM_Base_Province,
         Province           |-> row.Province,
         City               |-> row.City,
         R6M_Sales_Actual   |-> row.R6M_Sales_Actual,
         Hospital_Potential |-> row.Hospital_Potential,
         num_cities_covered |-> count,
         top_sales_city     |-> top_s,
         top_potential_city |-> top_p,
         base_city_aligned  |-> base_city_aligned_groundrules(row.DM_Base_City, top_s, top_p),
         cross_province     |-> cross_province_groundrules(row.DM_Base_Province, row.Province),
         cross_province_all |->
             cross_province_all_groundrules(
                 {cross_province_groundrules(mine[j].DM_Base_Province, mine[j].Province)
                      : j \in DOMAIN mine})]

evaluate_dm_city_coverage_groundrules(df) ==
    LET summary == dm_city_summary_groundrules(df)
    IN  [i \in DOMAIN summary |-> dm_evaluation_row_groundrules(summary, summary[i])]

-----------------------------------------------------------------------------
(* Rule 4.8 of ffe_groundrules.py: evaluate_rm_coverage                    *)

rm_province_key_groundrules(r) ==
    <<r.RM_POS, r.RM_Name, r.RM_Base_City, r.RM_Base_Province, r.Province>>
rm_dedup_key_groundrules(r) == <<r.RM_POS, r.Province, r.Hospital_Code>>

\* drop_duplicates(subset=[RM_POS, 省份, 医院编码])
rm_potential_rows_groundrules(df) == DropDuplicates(df, rm_dedup_key_groundrules)

rm_province_summary_groundrules(df) ==
    LET dedup == rm_potential_rows_groundrules(df)
        keys  == SortKeys({rm_province_key_groundrules(df[i]) : i \in DOMAIN df}
                          \cup {rm_province_key_groundrules(dedup[i]) : i \in DOMAIN dedup})
    IN  [i \in DOMAIN keys |->
            LET gs == Group(df, rm_province_key_groundrules, keys[i])
                gp == Group(dedup, rm_province_key_groundrules, keys[i])
            IN  [RM_POS             |-> keys[i][1],
                 RM_Name            |-> keys[i][2],
                 RM_Base_City       |-> keys[i][3],
                 RM_Base_Province   |-> keys[i][4],
                 Province           |-> keys[i][5],
                 R6M_Sales_Actual   |->
                     IF gs = <<>> THEN NaN
                     ELSE ColSum(gs, LAMBDA r : r.R6M_Sales_Actual),
                 Hospital_Potential |->
                     IF gp = <<>> THEN NaN
                     ELSE ColSum(gp, LAMBDA r : r.Hospital_Potential)]]

\* lambda x: 'Yes' if x >= 2 else 'No'
multiple_rms_groundrules(x) == YesNo(x >= 2)

\* One row of the result: the summary row with the per-RM and per-province
\* columns merged in.
rm_evaluation_row_groundrules(summary, row) ==
    LET mine  == Group(summary, LAMBDA rec : <<rec.RM_POS>>, <<row.RM_POS>>)
        count == NUnique(mine, LAMBDA r : r.Province)
        top_s == IdxMax(summary, LAMBDA rec : <<rec.RM_POS>>, <<row.RM_POS>>,
                        LAMBDA r : r.R6M_Sales_Actual).Province
        top_p == IdxMax(summary, LAMBDA rec : <<rec.RM_POS>>, <<row.RM_POS>>,
                        LAMBDA r : r.Hospital_Potential).Province
        here  == Where(summary, LAMBDA r : r.Province = row.Province)
    IN  [RM_POS                 |-> row.RM_POS,
         RM_Name                |-> row.RM_Name,
         RM_Base_City           |-> row.RM_Base_City,
         RM_Base_Province       |-> row.RM_Base_Province,
         Province               |-> row.Province,
         R6M_Sales_Actual       |-> row.R6M_Sales_Actual,
         Hospital_Potential     |-> row.Hospital_Potential,
         num_provinces_covered  |-> count,
         top_sales_province     |-> top_s,
         top_potential_province |-> top_p,
         base_province_aligned  |->
             base_city_aligned_groundrules(row.RM_Base_Province, top_s, top_p),
         cross_province         |->
             cross_province_groundrules(row.RM_Base_Province, row.Province),
         cross_province_all     |->
             cross_province_all_groundrules(
                 {cross_province_groundrules(mine[j].RM_Base_Province, mine[j].Province)
                      : j \in DOMAIN mine}),
         multiple_rms           |-> multiple_rms_groundrules(NUnique(here, LAMBDA r : r.RM_POS))]

evaluate_rm_coverage_groundrules(df) ==
    LET summary == rm_province_summary_groundrules(df)
    IN  [i \in DOMAIN summary |-> rm_evaluation_row_groundrules(summary, summary[i])]

-----------------------------------------------------------------------------
(* Rule 4.2 of ffe_groundrules.py: check_personnel_deployment              *)

\* groupby(省份).agg(sum, sum, nunique) with productivity and growth_rate
province_stats_groundrules(df) ==
    LET keys == GroupKeys(df, LAMBDA rec : <<rec.Province>>)
    IN  [i \in DOMAIN keys |->
            LET g      == Group(df, LAMBDA rec : <<rec.Province>>, keys[i])
                actual == ColSum(g, LAMBDA r : r.Actual_2023Q2)
                target == ColSum(g, LAMBDA r : r.Final_Target_24Q2)
                count  == NUnique(g, LAMBDA r : r.MR_Pos)
            IN  [Province          |-> keys[i][1],
                 Actual_2023Q2     |-> actual,
                 Final_Target_24Q2 |-> target,
                 MR_Pos            |-> count,
                 productivity      |-> Times4(Div(target, count)),
                 growth_rate       |-> Sub1(Div(target, actual))]]

\* (total target / total of the per-province MR counts) * 4
overall_avg_productivity_groundrules(df) ==
    LET stats == province_stats_groundrules(df)
    IN  Times4(Div(ColSum(stats, LAMBDA r : r.Final_Target_24Q2),
                  ColSum(stats, LAMBDA r : r.MR_Pos)))

\* (total target / df['2023Q2 Actual'].sum()) - 1
overall_avg_growth_rate_groundrules(df) ==
    LET stats == province_stats_groundrules(df)
    IN  Sub1(Div(ColSum(stats, LAMBDA r : r.Final_Target_24Q2),
                 ColSum(df, LAMBDA r : r.Actual_2023Q2)))

\* 'N', then 'Y' under low_productivity_mask
low_productivity_mask_groundrules(productivity, growth_rate, avg_productivity, avg_growth_rate) ==
    IF Lt(productivity, avg_productivity) /\ Lt(growth_rate, avg_growth_rate)
    THEN "Y" ELSE "N"

check_personnel_deployment_groundrules(df) ==
    LET stats      == province_stats_groundrules(df)
        avg_prod   == overall_avg_productivity_groundrules(df)
        avg_growth == overall_avg_growth_rate_groundrules(df)
    IN  [i \in DOMAIN stats |->
            [Province          |-> stats[i].Province,
             Actual_2023Q2     |-> stats[i].Actual_2023Q2,
             Final_Target_24Q2 |-> stats[i].Final_Target_24Q2,
             MR_Pos            |-> stats[i].MR_Pos,
             productivity      |-> stats[i].productivity,
             growth_rate       |-> stats[i].growth_rate,
             violation         |->
                 low_productivity_mask_groundrules(stats[i].productivity, stats[i].growth_rate,
                                       avg_prod, avg_growth)]]

-----------------------------------------------------------------------------
(* Rule 4.3 of ffe_groundrules.py: evaluate_dm_deployment                  *)

\* lambda x: 'Yes' if 6 <= x <= 10 else 'No'
dm_span_range_check_groundrules(x) == YesNo(6 <= x /\ x <= 10)

\* df[target].sum() / df[DM_POS].nunique()
overall_dm_productivity_groundrules(df) ==
    Div(ColSum(df, LAMBDA r : r.Final_Target_24Q2), NUnique(df, LAMBDA r : r.DM_POS))

\* Variant: the span threshold of the RM rule (< 6) in this module only.
dm_low_span_mask_groundrules_below_6(span, productivity, overall) ==
    YesNo(span < 6 /\ Lt(Fin(productivity, 1), Times07(overall)))

\* 'No', then 'Yes' under (span < 7) & (productivity < 0.7 * overall)
dm_low_span_mask_groundrules(span, productivity, overall) ==
    YesNo(span < 7 /\ Lt(Fin(productivity, 1), Times07(overall)))

\* groupby([DM_POS, DM_Name])[MR_Pos].nunique(), for one group
dm_span_of_control_groundrules(df, key) ==
    NUnique(Group(df, LAMBDA rec : <<rec.DM_POS, rec.DM_Name>>, key), LAMBDA r : r.MR_Pos)

evaluate_dm_deployment_groundrules(df) ==
    LET keys    == GroupKeys(df, LAMBDA rec : <<rec.DM_POS, rec.DM_Name>>)
        overall == overall_dm_productivity_groundrules(df)
    IN  [i \in DOMAIN keys |->
            LET span == dm_span_of_control_groundrules(df, keys[i])
                prod == ColSum(Group(df, LAMBDA rec : <<rec.DM_POS>>, <<keys[i][1]>>),
                               LAMBDA r : r.Final_Target_24Q2)
            IN  [DM_POS           |-> keys[i][1],
                 DM_Name          |-> keys[i][2],
                 span_of_control  |-> span,
                 span_range_check |-> dm_span_range_check_groundrules(span),
                 productivity     |-> prod,
                 violation        |->
                     dm_low_span_mask_groundrules(span, prod, overall)]]

-----------------------------------------------------------------------------
(* Rule 4.4 of ffe_groundrules.py: evaluate_rm_deployment                  *)

\* lambda x: 'Yes' if 6 <= x <= 8 else 'No'
rm_span_range_check_groundrules(x) == YesNo(6 <= x /\ x <= 8)

\* df[target].sum() / df[RM_POS].nunique()
overall_rm_productivity_groundrules(df) ==
    Div(ColSum(df, LAMBDA r : r.Final_Target_24Q2), NUnique(df, LAMBDA r : r.RM_POS))

\* 'No', then 'Yes' under (span < 6) & (productivity < 0.7 * overall)
rm_low_span_mask_groundrules(span, productivity, overall) ==
    YesNo(span < 6 /\ Lt(Fin(productivity, 1), Times07(overall)))

evaluate_rm_deployment_groundrules(df) ==
    LET keys    == GroupKeys(df, LAMBDA rec : <<rec.RM_POS, rec.RM_Name>>)
        overall == overall_rm_productivity_groundrules(df)
    IN  [i \in DOMAIN keys |->
            LET span == NUnique(Group(df, LAMBDA rec : <<rec.RM_POS, rec.RM_Name>>, keys[i]), LAMBDA r : r.DM_POS)
                prod == ColSum(Group(df, LAMBDA rec : <<rec.RM_POS>>, <<keys[i][1]>>),
                               LAMBDA r : r.Final_Target_24Q2)
            IN  [RM_POS           |-> keys[i][1],
                 RM_Name          |-> keys[i][2],
                 span_of_control  |-> span,
                 span_range_check |-> rm_span_range_check_groundrules(span),
                 productivity     |-> prod,
                 violation        |->
                     rm_low_span_mask_groundrules(span, prod, overall)]]

-----------------------------------------------------------------------------
(* Rule 4.5 of ffe_groundrules.py: calculate_pt_group_metrics              *)

\* ['MR_Pos'].nunique() of one PT group's rows
pt_group_count_groundrules(g) == NUnique(g, LAMBDA r : r.MR_Pos)

calculate_pt_group_metrics_groundrules(df) ==
    LET keys == GroupKeys(df, LAMBDA rec : <<rec.PT_Group>>)
    IN  [i \in DOMAIN keys |->
            LET g      == Group(df, LAMBDA rec : <<rec.PT_Group>>, keys[i])
                people == pt_group_count_groundrules(g)
                a23q1  == ColSum(g, LAMBDA r : r.Actual_2023Q1)
                a23q2  == ColSum(g, LAMBDA r : r.Actual_2023Q2)
                a24q1  == ColSum(g, LAMBDA r : r.Actual_2024Q1)
                target == ColSum(g, LAMBDA r : r.Final_Target_24Q2)
            IN  [PT_Group              |-> keys[i][1],
                 Actual_2023Q1         |-> a23q1,
                 Actual_2023Q2         |-> a23q2,
                 Actual_2024Q1         |-> a24q1,
                 Final_Target_24Q2     |-> target,
                 num_people            |-> people,
                 avg_productivity_24Q2 |-> Div(target, people),
                 avg_productivity_24Q1 |-> Div(a24q1, people),
                 growth_rate_24Q2      |-> Sub1(Div(target, a23q2)),
                 growth_rate_24Q1      |-> Sub1(Div(a24q1, a23q1))]]

-----------------------------------------------------------------------------
(* Rule 4.6 of ffe_groundrules.py: evaluate_mr_performance                 *)

\* (index < 0.5) -> 'Yes' / 'No'
productivity_index_low_groundrules(index) == YesNo(Lt(index, Fin(1, 2)))

\* (growth < group growth rate) & index.between(0.5, 0.7) -> 'Yes' / 'No'
growth_low_and_productivity_index_medium_groundrules(growth, growth_rate, index) ==
    YesNo(Lt(growth, growth_rate) /\ Between(index, Fin(1, 2), Fin(7, 10)))

\* One row of groupby([MR_Pos, MR_Name])[four columns].sum(): the key and the
\* sums over the rows g of the group.
mr_group_sums_groundrules(key, g) ==
    [MR_Pos            |-> key[1],
     MR_Name           |-> key[2],
     Actual_2023Q1     |-> ColSum(g, LAMBDA r : r.Actual_2023Q1),
     Actual_2023Q2     |-> ColSum(g, LAMBDA r : r.Actual_2023Q2),
     Actual_2024Q1     |-> ColSum(g, LAMBDA r : r.Actual_2024Q1),
     Final_Target_24Q2 |-> ColSum(g, LAMBDA r : r.Final_Target_24Q2)]

\* groupby([MR_Pos, MR_Name])[four columns].sum().reset_index()
mr_sums_groundrules(df) ==
    LET keys == GroupKeys(df, LAMBDA rec : <<rec.MR_Pos, rec.MR_Name>>)
    IN  [i \in DOMAIN keys |->
            mr_group_sums_groundrules(keys[i], Group(df, LAMBDA rec : <<rec.MR_Pos, rec.MR_Name>>, keys[i]))]

\* The rows a left merge on MR_Pos makes of one row of sums: one per matching
\* pair, in the pairs' order.
mr_pt_group_rows_groundrules(row, pairs) ==
    LET match == Where(pairs, LAMBDA r : r.MR_Pos = row.MR_Pos)
    IN  [j \in DOMAIN match |-> row @@ [PT_Group |-> match[j].PT_Group]]

\* .merge(df[[MR_Pos, PT_Group]].drop_duplicates(), on=MR_Pos, how='left'):
\* one row per PT group of the MR position, in order of first appearance.
mr_with_pt_group_groundrules(df) ==
    LET sums == mr_sums_groundrules(df)
    IN  Flatten([i \in DOMAIN sums |->
            mr_pt_group_rows_groundrules(sums[i], DropDuplicates(df, LAMBDA rec : <<rec.MR_Pos, rec.PT_Group>>))])

\* The metric rows a left merge on PT_Group matches with a group; without a
\* match the metric cells are missing.
mr_metric_cells_groundrules(metrics, group) ==
    LET match == Where(metrics, LAMBDA m : m.PT_Group = group)
    IN  IF match = <<>>
        THEN <<[avg_productivity_24Q2 |-> NanF, growth_rate_24Q2 |-> NanF,
                avg_productivity_24Q1 |-> NanF, growth_rate_24Q1 |-> NanF]>>
        ELSE match

\* The rows the two merges with pt_group_metrics make of one row: one per pair
\* of matching metric rows (the Q2 columns first, then the Q1 columns).
mr_metric_rows_groundrules(row, cells) ==
    Flatten([a \in DOMAIN cells |->
        [b \in DOMAIN cells |->
            row @@
            [avg_productivity_24Q2 |-> cells[a].avg_productivity_24Q2,
             growth_rate_24Q2      |-> cells[a].growth_rate_24Q2,
             avg_productivity_24Q1 |-> cells[b].avg_productivity_24Q1,
             growth_rate_24Q1      |-> cells[b].growth_rate_24Q1]]])

\* mr_data after the two merges with pt_group_metrics on PT_Group (how='left').
mr_with_metrics_groundrules(df, metrics) ==
    LET left == mr_with_pt_group_groundrules(df)
    IN  Flatten([i \in DOMAIN left |->
            mr_metric_rows_groundrules(left[i], mr_metric_cells_groundrules(metrics, left[i].PT_Group))])

\* index = current / group average productivity
productivity_index_groundrules(current, avg_productivity) == DivF(current, avg_productivity)

\* growth = current / prior year - 1
mr_growth_groundrules(current, prior_year) == Sub1(Div(current, prior_year))

\* The index, growth and flag columns of one merged row, for Q2 and for Q1.
mr_performance_row_groundrules(row) ==
    row @@
    [Q2_Productivity_Index |->
         productivity_index_groundrules(row.Final_Target_24Q2, row.avg_productivity_24Q2),
     Q2_Growth |->
         mr_growth_groundrules(row.Final_Target_24Q2, row.Actual_2023Q2),
     Q2_Productivity_Index_Low |->
         productivity_index_low_groundrules(
             productivity_index_groundrules(row.Final_Target_24Q2, row.avg_productivity_24Q2)),
     Q2_Growth_Low_and_Productivity_Index_Medium |->
         growth_low_and_productivity_index_medium_groundrules(
             mr_growth_groundrules(row.Final_Target_24Q2, row.Actual_2023Q2),
             row.growth_rate_24Q2,
             productivity_index_groundrules(row.Final_Target_24Q2, row.avg_productivity_24Q2)),
     Q1_Productivity_Index |->
         productivity_index_groundrules(row.Actual_2024Q1, row.avg_productivity_24Q1),
     Q1_Growth |->
         mr_growth_groundrules(row.Actual_2024Q1, row.Actual_2023Q1),
     Q1_Productivity_Index_Low |->
         productivity_index_low_groundrules(
             productivity_index_groundrules(row.Actual_2024Q1, row.avg_productivity_24Q1)),
     Q1_Growth_Low_and_Productivity_Index_Medium |->
         growth_low_and_productivity_index_medium_groundrules(
             mr_growth_groundrules(row.Actual_2024Q1, row.Actual_2023Q1),
             row.growth_rate_24Q1,
             productivity_index_groundrules(row.Actual_2024Q1, row.avg_productivity_24Q1))]

evaluate_mr_performance_groundrules(df, metrics) ==
    LET mr_data == mr_with_metrics_groundrules(df, metrics)
    IN  [i \in DOMAIN mr_data |-> mr_performance_row_groundrules(mr_data[i])]

-----------------------------------------------------------------------------
(* Datasets                                                                *)
(*                                                                         *)
(* load_data returns whatever the uploaded sheet holds, unvalidated: a     *)
(* position may appear under two names or two base cities and a city under *)
(* two provinces.  The datasets are drawn from bounded families, one per   *)
(* group of rules; every cell a family does not vary holds 1.              *)

MaxExtra  == 2    \* free rows of a coverage dataset
MaxTour   == 3    \* further cities the first MR visits once each
MaxSpan   == 11   \* subordinates of one manager
MaxTarget == 3    \* target of the first row of a unit (every other row: 1)
MaxPrior  == 2    \* prior-period actual of one row
MaxAmount == 13   \* target / current actual of one MR in a performance dataset
MaxWide   == 3    \* current amount of MR 1 in a wide performance dataset
MaxPeople == 3    \* MRs of one province
MaxRows   == 3    \* rows of a transfer dataset
MaxOverlapRows == 2    \* rows of an overlap dataset
MaxMixedSales == 3     \* sales of one row of a mixed coverage dataset
MaxEquivalenceRows == 2    \* rows of a dataset of the module comparison

BaseRow ==
    [mr_pos |-> 1, mr_name |-> 1, mr_base_city_name |-> 1,
     dm_pos |-> 1, dm_name |-> 1, dm_base_city_name |-> 1, dm_base_province_name |-> 1,
     rm_position_cd |-> 1, rm_name |-> 1, rm_base_city_name |-> 1, rm_base_province_name |-> 1,
     pt_group |-> 1, hco_province_name |-> 1, hco_city_name |-> 1, hco_cd |-> 1,
     r6m_actual_sales |-> 1, hco_potential_value |-> 1,
     tyq2_target |-> 1, lyq2_actual_sales |-> 1,
     tyq1_actual_sales |-> 1, lyq1_actual_sales |-> 1]

\* Sequences of length 0..n over S.
SeqsUpTo(S, n) == UNION {[1..m -> S] : m \in 0..n}

(* A dataset row of the coverage rules: the MR position with the name and  *)
(* base city the row gives it, the city with the province the row files it *)
(* under, the facility, and the row's sales and potential.  The managers   *)
(* are either one per MR position ("split") or one DM and one RM over all  *)
(* ("shared").                                                              *)
CoverageRow(org, pos, name, base, province, city, fac, sales, potential) ==
    LET mgr == IF org = "shared" THEN 1 ELSE pos
    IN  [BaseRow EXCEPT
            !.mr_pos = pos, !.mr_name = name, !.mr_base_city_name = base,
            !.dm_pos = mgr, !.dm_name = mgr, !.dm_base_city_name = mgr,
            !.dm_base_province_name = mgr,
            !.rm_position_cd = mgr, !.rm_name = mgr, !.rm_base_city_name = mgr,
            !.rm_base_province_name = mgr,
            !.hco_province_name = province,
            !.hco_city_name = city, !.hco_cd = fac,
            !.r6m_actual_sales = sales, !.hco_potential_value = potential]

(* Regular coverage datasets.  Two MR positions; position p has the name p  *)
(* and is based in city p, and city c lies in province c for the two cities *)
(* of the free rows, while the tour cities of MR 1 lie in province 1.  A    *)
(* facility has one potential value: facility f is worth 3 - f.  A tour row *)
(* sells 1, the i-th free row sells i, so rows of one facility differ in    *)
(* sales.                                                                   *)
RegularCoverageData ==
    {[i \in 1..tour |-> CoverageRow(org, 1, 1, 1, 1, 2 + i, 1, 1, 2)] \o
     [i \in DOMAIN free |->
         CoverageRow(org, free[i][1], free[i][1], free[i][1],
                     free[i][2], free[i][2], free[i][3], i, 3 - free[i][3])] :
        org \in {"split", "shared"}, tour \in 0..MaxTour,
        free \in SeqsUpTo({1, 2} \X {1, 2} \X {1, 2}, MaxExtra)}
    \ {<<>>}

(* Mixed coverage datasets.  Three rows of MR position 1, each with a       *)
(* facility of its own: two rows in city 1 and one in city 2 of province 2. *)
(* The first and the third row carry name 1, base city 1; the second row    *)
(* carries the name, the base city and the province drawn for it, so that   *)
(* the position may have two names or two base cities and city 1 may be     *)
(* filed under two provinces.  The rows sell 1..MaxMixedSales each; their   *)
(* potentials are their sales, or the sales in reverse row order.           *)
MixedCoverageData ==
    {[i \in 1..3 |->
         CoverageRow("shared", 1,
                     IF i = 2 THEN second[1] ELSE 1,
                     IF i = 2 THEN second[2] ELSE 1,
                     IF i = 1 THEN 1 ELSE IF i = 2 THEN second[3] ELSE 2,
                     IF i = 3 THEN 2 ELSE 1,
                     i, sales[i],
                     IF reverse THEN sales[4 - i] ELSE sales[i])] :
        second \in {1, 2} \X {1, 2} \X {1, 2},
        sales \in [1..3 -> 1..MaxMixedSales], reverse \in BOOLEAN}

CoverageData == RegularCoverageData \cup MixedCoverageData

(* A dataset row of the deployment rules: subordinate i of the manager    *)
(* position m, which the row gives the name `name`.  With shape "dm" the   *)
(* managers are DMs of one RM and the subordinates MRs; with shape "rm"    *)
(* they are RMs and the subordinates DMs with one MR each.                 *)
DeploymentRow(shape, m, name, i, target) ==
    IF shape = "dm"
    THEN [BaseRow EXCEPT !.dm_pos = m, !.dm_name = name, !.mr_pos = 100 * m + i,
                         !.mr_name = 100 * m + i, !.tyq2_target = target]
    ELSE [BaseRow EXCEPT !.rm_position_cd = m, !.rm_name = name, !.dm_pos = 100 * m + i,
                         !.dm_name = 100 * m + i, !.mr_pos = 100 * m + i,
                         !.mr_name = 100 * m + i, !.tyq2_target = target]

(* A deployment dataset.  Two manager positions: the first with span1      *)
(* subordinates, the second with span2.  The first row of manager 1        *)
(* carries the target `first`, the first row of manager 2 MaxTarget, every *)
(* other row 1.  In a dataset of kind "again" the first subordinate of     *)
(* manager 1 has a second row; in one of kind "successor" the row of the   *)
(* last subordinate of manager 1 names another holder of the position      *)
(* (name 2), so that the position has two names when span1 > 1.            *)
Deployment(shape, span1, span2, first, kind) ==
    [i \in 1..span1 |->
        DeploymentRow(shape, 1,
                      IF kind = "successor" /\ i = span1 THEN 2 ELSE 1,
                      i, IF i = 1 THEN first ELSE 1)] \o
    [i \in 1..span2 |->
        DeploymentRow(shape, 2, 2, i, IF i = 1 THEN MaxTarget ELSE 1)] \o
    (IF kind = "again" THEN <<DeploymentRow(shape, 1, 1, 1, 1)>> ELSE <<>>)

(* Deployment datasets: manager 1 with 1..MaxSpan subordinates, manager 2  *)
(* with 1, MaxSpan - 2 or MaxSpan.                                         *)
DeploymentData ==
    {Deployment(shape, span1, span2, first, kind) :
        shape \in {"dm", "rm"}, span1 \in 1..MaxSpan,
        span2 \in {1, MaxSpan - 2, MaxSpan},
        first \in 0..MaxTarget, kind \in {"plain", "again", "successor"}}

(* A personnel dataset.  Two provinces with people1 and people2 MRs; the   *)
(* MRs of province 2 are those of province 1 again ("shared") or others.   *)
(* The first row of a province carries the target and prior-year actual    *)
(* given for it, every other row 1 and 1.                                  *)
PersonnelRow(prov, mr, target, actual) ==
    [BaseRow EXCEPT !.hco_province_name = prov, !.hco_city_name = prov, !.mr_pos = mr, !.mr_name = mr,
                    !.tyq2_target = target, !.lyq2_actual_sales = actual]

Personnel(people1, people2, target, actual1, actual2, shared) ==
    [i \in 1..people1 |->
        PersonnelRow(1, i, IF i = 1 THEN target[1] ELSE 1,
                           IF i = 1 THEN actual1 ELSE 1)] \o
    [i \in 1..people2 |->
        PersonnelRow(2, IF shared THEN i ELSE 100 + i,
                     IF i = 1 THEN target[2] ELSE 1,
                     IF i = 1 THEN actual2 ELSE 1)]

(* Personnel datasets: province 1 with 1..MaxPeople MRs, province 2 with 1 *)
(* or MaxPeople and a prior-year actual of 0 or MaxPrior on its first row. *)
PersonnelData ==
    {Personnel(people1, people2, target, actual1, actual2, shared) :
        people1 \in 1..MaxPeople, people2 \in {1, MaxPeople},
        target \in [1..2 -> 0..MaxTarget],
        actual1 \in 0..MaxPrior, actual2 \in {0, MaxPrior}, shared \in BOOLEAN}

(* Performance datasets.  MRs 1 and 2 form PT group 1, MR 3 alone PT group  *)
(* 2.  The columns of one quarter vary for MRs 1 and 2 (current amount in   *)
(* 0..MaxAmount, prior-year amount in 0..MaxPrior); the other quarter's     *)
(* columns hold 1.  In the wide datasets seven MRs form one PT group: MR 1  *)
(* with a current amount in 1..MaxWide and a prior-year amount of 3, the    *)
(* others with 4, 4, 4, 5, 5, 5 and a prior-year amount of 1, so that the   *)
(* group's average amount is not a binary fraction.                         *)
PerformanceRow(quarter, mr, group, current, prior) ==
    IF quarter = "Q2"
    THEN [BaseRow EXCEPT !.mr_pos = mr, !.mr_name = mr, !.pt_group = group,
                         !.tyq2_target = current, !.lyq2_actual_sales = prior]
    ELSE [BaseRow EXCEPT !.mr_pos = mr, !.mr_name = mr, !.pt_group = group,
                         !.tyq1_actual_sales = current, !.lyq1_actual_sales = prior]

WideData ==
    {[mr \in 1..7 |->
         PerformanceRow(quarter, mr, 1,
                        IF mr = 1 THEN current ELSE IF mr <= 4 THEN 4 ELSE 5,
                        IF mr = 1 THEN 3 ELSE 1)] :
        quarter \in {"Q2", "Q1"}, current \in 1..MaxWide}

Performance(quarter, current, prior) ==
    <<PerformanceRow(quarter, 1, 1, current[1], prior[1]),
      PerformanceRow(quarter, 2, 1, current[2], prior[2]),
      PerformanceRow(quarter, 3, 2, 1, 1)>>

PerformanceData ==
    {Performance(quarter, current, prior) :
        quarter \in {"Q2", "Q1"}, current \in [1..2 -> 0..MaxAmount],
        prior \in [1..2 -> 0..MaxPrior]}
    \cup WideData

(* Transfer datasets.  1..MaxRows rows of two MR positions; every row names  *)
(* one of two PT groups, so an MR may have rows in both, and carries a       *)
(* target of 1 or 2.                                                         *)
TransferRow(mr, group, target) ==
    [BaseRow EXCEPT !.mr_pos = mr, !.mr_name = mr, !.pt_group = group,
                    !.tyq2_target = target]

TransferData ==
    {[i \in DOMAIN rows |-> TransferRow(rows[i][1], rows[i][2], rows[i][3])] :
        rows \in SeqsUpTo({1, 2} \X {1, 2} \X {1, 2}, MaxRows)}
    \ {<<>>}

(* Overlap datasets.  1..MaxOverlapRows rows of one DM and one RM position   *)
(* in the city named 1; a row names the holder of the positions (1 or 2),    *)
(* the province the city is filed under (1 or 2) and the facility (1 or 2).  *)
(* No cell is empty.                                                         *)
OverlapRow(name, province, fac) ==
    [BaseRow EXCEPT !.dm_name = name, !.rm_name = name,
                    !.hco_province_name = province, !.hco_cd = fac]

OverlapData ==
    {[i \in DOMAIN rows |-> OverlapRow(rows[i][1], rows[i][2], rows[i][3])] :
        rows \in SeqsUpTo({1, 2} \X {1, 2} \X {1, 2}, MaxOverlapRows)}
    \ {<<>>}

-----------------------------------------------------------------------------
(* The list of modules and the loop body shared by the batch runner of     *)
(* ffe_test_script.py and the "Show me the power!" button of ffe_test.py   *)

\* Variant: MR Performance listed before PT Group Metrics.
evaluation_modules_performance_first ==
    <<"MR City Coverage", "Personnel Deployment", "DM Deployment",
      "RM Deployment", "MR Performance", "PT Group Metrics",
      "DM City Coverage", "RM Coverage">>

\* The module names of evaluation_modules, in list order.
evaluation_modules ==
    <<"MR City Coverage", "Personnel Deployment", "DM Deployment",
      "RM Deployment", "PT Group Metrics", "MR Performance",
      "DM City Coverage", "RM Coverage">>

\* The columns a rule reads from the dataset.
required_columns(module_name) ==
    CASE module_name = "MR City Coverage" ->
             {"mr_pos", "mr_name", "mr_base_city_name", "hco_province_name", "hco_city_name",
              "r6m_actual_sales", "hco_potential_value"}
      [] module_name = "Personnel Deployment" ->
             {"hco_province_name", "lyq2_actual_sales", "tyq2_target", "mr_pos"}
      [] module_name = "DM Deployment" ->
             {"dm_pos", "dm_name", "mr_pos", "tyq2_target"}
      [] module_name = "RM Deployment" ->
             {"rm_position_cd", "rm_name", "dm_pos", "tyq2_target"}
      [] module_name = "PT Group Metrics" ->
             {"pt_group", "mr_pos", "lyq1_actual_sales", "lyq2_actual_sales",
              "tyq1_actual_sales", "tyq2_target"}
      [] module_name = "MR Performance" ->
             {"mr_pos", "mr_name", "pt_group", "lyq1_actual_sales", "lyq2_actual_sales",
              "tyq1_actual_sales", "tyq2_target"}
      [] module_name = "DM City Coverage" ->
             {"dm_pos", "dm_name", "dm_base_city_name", "dm_base_province_name", "hco_province_name",
              "hco_city_name", "r6m_actual_sales", "hco_potential_value", "hco_cd"}
      [] module_name = "RM Coverage" ->
             {"rm_position_cd", "rm_name", "rm_base_city_name", "rm_base_province_name", "hco_province_name",
              "r6m_actual_sales", "hco_potential_value", "hco_cd"}

\* The columns of a dataset (every row has the same).
columns(df) == DOMAIN df[1]

\* The rule raises KeyError on the dataset: a column it reads is missing.
raises(module_name, df) == ~(required_columns(module_name) \subseteq columns(df))

\* module_func(df_orig) for the rules of one argument.
module_func(module_name, df) ==
    CASE module_name = "MR City Coverage"     -> evaluate_mr_city_coverage(df)
      [] module_name = "Personnel Deployment" -> check_personnel_deployment(df)
      [] module_name = "DM Deployment"        -> evaluate_dm_deployment(df)
      [] module_name = "RM Deployment"        -> evaluate_rm_deployment(df)
      [] module_name = "PT Group Metrics"     -> calculate_pt_group_metrics(df)
      [] module_name = "DM City Coverage"     -> evaluate_dm_city_coverage(df)
      [] module_name = "RM Coverage"          -> evaluate_rm_coverage(df)

\* result.to_excel(writer, sheet_name=module_name, index=False)
to_excel(sheets, module_name, result) ==
    Append(sheets, [sheet_name |-> module_name, table |-> result])

\* The loop over evaluation_modules run to its end: the sheets in list order.
diagnosis(df, metrics) ==
    [i \in DOMAIN evaluation_modules |->
        [sheet_name |-> evaluation_modules[i],
         table      |-> IF evaluation_modules[i] = "MR Performance"
                        THEN evaluate_mr_performance(df, metrics)
                        ELSE module_func(evaluation_modules[i], df)]]

-----------------------------------------------------------------------------
(* The application: ffe_test.py                                            *)

\* No ExcelWriter was opened in the script run.
NoWorkbook ==
    /\ workbook = <<>>
    /\ module_index = 0
    /\ batch = "off"
    /\ output_file = <<>>
    /\ download_filename = ""

\* The script run that follows the upload: the select box shows its first
\* option and no button is pressed, so result_df = None.
NoRun ==
    /\ evaluation_module = "MR City Coverage"
    /\ pt_group_metrics = <<>>
    /\ result_df = <<>>
    /\ NoWorkbook

InitCoverage    == df_orig \in CoverageData    /\ NoRun
InitDeployment  == df_orig \in DeploymentData  /\ NoRun
InitPersonnel   == df_orig \in PersonnelData   /\ NoRun
InitPerformance == df_orig \in PerformanceData /\ NoRun
InitTransfer    == df_orig \in TransferData    /\ NoRun
InitOverlap     == df_orig \in OverlapData     /\ NoRun

\* One script run with no button pressed (an option of the select box is
\* chosen): result_df = None and nothing is computed.
SelectModule ==
    /\ evaluation_module' \in Range(evaluation_modules)
    /\ result_df' = <<>>
    /\ pt_group_metrics' = <<>>
    /\ workbook' = <<>>
    /\ module_index' = 0
    /\ batch' = "off"
    /\ output_file' = <<>>
    /\ download_filename' = ""
    /\ UNCHANGED df_orig

\* evaluation_module.replace(' ', '_')
underscored(module_name) ==
    CASE module_name = "MR City Coverage"     -> "MR_City_Coverage"
      [] module_name = "Personnel Deployment" -> "Personnel_Deployment"
      [] module_name = "DM Deployment"        -> "DM_Deployment"
      [] module_name = "RM Deployment"        -> "RM_Deployment"
      [] module_name = "PT Group Metrics"     -> "PT_Group_Metrics"
      [] module_name = "MR Performance"       -> "MR_Performance"
      [] module_name = "DM City Coverage"     -> "DM_City_Coverage"
      [] module_name = "RM Coverage"          -> "RM_Coverage"

\* f"{evaluation_module.replace(' ', '_')}_result.xlsx"
result_filename(module_name) == underscored(module_name) \o "_result.xlsx"

\* One script run with "Run Selected Module" pressed: the branch of the module
\* the select box shows; its table is not None, so it is written to the file
\* download_filename (to_excel on a path: a workbook of the one sheet
\* 'Sheet1', saved) and offered for download.
RunMRCityCoverage ==
    /\ evaluation_module = "MR City Coverage"
    /\ result_df' = evaluate_mr_city_coverage(df_orig)
    /\ pt_group_metrics' = <<>>
    /\ download_filename' = result_filename(evaluation_module)
    /\ workbook' = to_excel(<<>>, "Sheet1", result_df')
    /\ module_index' = 0
    /\ batch' = "off"
    /\ output_file' = workbook'
    /\ UNCHANGED <<df_orig, evaluation_module>>

RunPersonnelDeployment ==
    /\ evaluation_module = "Personnel Deployment"
    /\ result_df' = check_personnel_deployment(df_orig)
    /\ pt_group_metrics' = <<>>
    /\ download_filename' = result_filename(evaluation_module)
    /\ workbook' = to_excel(<<>>, "Sheet1", result_df')
    /\ module_index' = 0
    /\ batch' = "off"
    /\ output_file' = workbook'
    /\ UNCHANGED <<df_orig, evaluation_module>>

RunDMDeployment ==
    /\ evaluation_module = "DM Deployment"
    /\ result_df' = evaluate_dm_deployment(df_orig)
    /\ pt_group_metrics' = <<>>
    /\ download_filename' = result_filename(evaluation_module)
    /\ workbook' = to_excel(<<>>, "Sheet1", result_df')
    /\ module_index' = 0
    /\ batch' = "off"
    /\ output_file' = workbook'
    /\ UNCHANGED <<df_orig, evaluation_module>>

RunRMDeployment ==
    /\ evaluation_module = "RM Deployment"
    /\ result_df' = evaluate_rm_deployment(df_orig)
    /\ pt_group_metrics' = <<>>
    /\ download_filename' = result_filename(evaluation_module)
    /\ workbook' = to_excel(<<>>, "Sheet1", result_df')
    /\ module_index' = 0
    /\ batch' = "off"
    /\ output_file' = workbook'
    /\ UNCHANGED <<df_orig, evaluation_module>>

RunPTGroupMetrics ==
    /\ evaluation_module = "PT Group Metrics"
    /\ result_df' = calculate_pt_group_metrics(df_orig)
    /\ pt_group_metrics' = <<>>
    /\ download_filename' = result_filename(evaluation_module)
    /\ workbook' = to_excel(<<>>, "Sheet1", result_df')
    /\ module_index' = 0
    /\ batch' = "off"
    /\ output_file' = workbook'
    /\ UNCHANGED <<df_orig, evaluation_module>>

RunMRPerformance ==
    /\ evaluation_module = "MR Performance"
    /\ pt_group_metrics' = calculate_pt_group_metrics(df_orig)
    /\ result_df' = evaluate_mr_performance(df_orig, pt_group_metrics')
    /\ download_filename' = result_filename(evaluation_module)
    /\ workbook' = to_excel(<<>>, "Sheet1", result_df')
    /\ module_index' = 0
    /\ batch' = "off"
    /\ output_file' = workbook'
    /\ UNCHANGED <<df_orig, evaluation_module>>

RunDMCityCoverage ==
    /\ evaluation_module = "DM City Coverage"
    /\ result_df' = evaluate_dm_city_coverage(df_orig)
    /\ pt_group_metrics' = <<>>
    /\ download_filename' = result_filename(evaluation_module)
    /\ workbook' = to_excel(<<>>, "Sheet1", result_df')
    /\ module_index' = 0
    /\ batch' = "off"
    /\ output_file' = workbook'
    /\ UNCHANGED <<df_orig, evaluation_module>>

RunRMCoverage ==
    /\ evaluation_module = "RM Coverage"
    /\ result_df' = evaluate_rm_coverage(df_orig)
    /\ pt_group_metrics' = <<>>
    /\ download_filename' = result_filename(evaluation_module)
    /\ workbook' = to_excel(<<>>, "Sheet1", result_df')
    /\ module_index' = 0
    /\ batch' = "off"
    /\ output_file' = workbook'
    /\ UNCHANGED <<df_orig, evaluation_module>>

\* One script run with "Show me the power!" pressed: every module is run in
\* list order into one workbook, and result_df = None.  The datasets of the
\* application carry every column, so no rule raises.
ShowMeThePower ==
    /\ result_df' = <<>>
    /\ pt_group_metrics' = calculate_pt_group_metrics(df_orig)
    /\ workbook' = diagnosis(df_orig, pt_group_metrics')
    /\ module_index' = Len(evaluation_modules) + 1
    /\ batch' = "saved"
    /\ output_file' = workbook'
    /\ download_filename' = ""
    /\ UNCHANGED <<df_orig, evaluation_module>>

Next ==
    \/ SelectModule
    \/ RunMRCityCoverage
    \/ RunPersonnelDeployment
    \/ RunDMDeployment
    \/ RunRMDeployment
    \/ RunPTGroupMetrics
    \/ RunMRPerformance
    \/ RunDMCityCoverage
    \/ RunRMCoverage
    \/ ShowMeThePower

SpecCoverage    == InitCoverage    /\ [][Next]_vars
SpecDeployment  == InitDeployment  /\ [][Next]_vars
SpecPersonnel   == InitPersonnel   /\ [][Next]_vars
SpecPerformance == InitPerformance /\ [][Next]_vars
SpecTransfer    == InitTransfer    /\ [][Next]_vars
SpecOverlap     == InitOverlap     /\ [][Next]_vars

-----------------------------------------------------------------------------
(* The batch runner: ffe_test_script.py                                    *)
(*                                                                         *)
(* main loads the dataset, opens an ExcelWriter and loops over             *)
(* evaluation_modules; every iteration calls one rule and writes its table *)
(* as a sheet.  A rule that reads a column the dataset does not have       *)
(* raises KeyError; nothing in main catches it, so it ends the loop and    *)
(* the with-block.  One step of the model is one iteration of the loop.    *)

MaxBatchRows == 2    \* rows of a batch dataset

(* Batch datasets.  1..MaxBatchRows rows of two MR positions in two PT       *)
(* groups with a target of 1 or 2, as a sheet with every column, as a sheet  *)
(* without the PT_Group column, and as a sheet without the DM base columns   *)
(* (which the field list shown by ffe_test.py does not ask for).             *)
DropColumns(df, dropped) ==
    [i \in DOMAIN df |-> [c \in (DOMAIN df[i]) \ dropped |-> df[i][c]]]

BatchData ==
    {DropColumns([i \in DOMAIN rows |->
                     TransferRow(rows[i][1], rows[i][2], rows[i][3])], dropped) :
        rows \in SeqsUpTo({1, 2} \X {1, 2} \X {1, 2}, MaxBatchRows) \ {<<>>},
        dropped \in {{}, {"pt_group"}, {"dm_base_city_name", "dm_base_province_name"}}}

\* main up to the loop: the dataset is loaded and the writer is open.
InitBatch ==
    /\ df_orig \in BatchData
    /\ evaluation_module = "None"
    /\ pt_group_metrics = <<>>
    /\ result_df = <<>>
    /\ workbook = <<>>
    /\ module_index = 1
    /\ batch = "running"
    /\ output_file = <<>>
    /\ download_filename = ""

\* Variant: the rule writes a column into the dataset it was given.
RunModule_in_place ==
    /\ batch = "running"
    /\ module_index <= Len(evaluation_modules)
    /\ evaluation_modules[module_index] # "MR Performance"
    /\ ~raises(evaluation_modules[module_index], df_orig)
    /\ evaluation_module' = evaluation_modules[module_index]
    /\ result_df' = module_func(evaluation_module', df_orig)
    /\ workbook' = to_excel(workbook, evaluation_module', result_df')
    /\ module_index' = module_index + 1
    /\ df_orig' = [i \in DOMAIN df_orig |-> df_orig[i] @@ [productivity |-> 0]]
    /\ UNCHANGED <<pt_group_metrics, batch, output_file, download_filename>>

\* One iteration, else branch: result = module_func(df_orig), then the sheet.
RunModule ==
    /\ batch = "running"
    /\ module_index <= Len(evaluation_modules)
    /\ evaluation_modules[module_index] # "MR Performance"
    /\ ~raises(evaluation_modules[module_index], df_orig)
    /\ evaluation_module' = evaluation_modules[module_index]
    /\ result_df' = module_func(evaluation_module', df_orig)
    /\ workbook' = to_excel(workbook, evaluation_module', result_df')
    /\ module_index' = module_index + 1
    /\ UNCHANGED <<df_orig, pt_group_metrics, batch, output_file, download_filename>>

\* One iteration, "MR Performance" branch: the PT-group table is computed
\* again and passed to the rule, then the sheet.
RunModuleMRPerformance ==
    /\ batch = "running"
    /\ module_index <= Len(evaluation_modules)
    /\ evaluation_modules[module_index] = "MR Performance"
    /\ ~raises("PT Group Metrics", df_orig)
    /\ ~raises("MR Performance", df_orig)
    /\ evaluation_module' = "MR Performance"
    /\ pt_group_metrics' = calculate_pt_group_metrics(df_orig)
    /\ result_df' = evaluate_mr_performance(df_orig, pt_group_metrics')
    /\ workbook' = to_excel(workbook, evaluation_module', result_df')
    /\ module_index' = module_index + 1
    /\ UNCHANGED <<df_orig, batch, output_file, download_filename>>

\* One iteration in which the rule raises: the exception leaves the loop and
\* the with-block, whose exit closes the writer and so saves the sheets
\* written before the failing rule (in the batch datasets at least four), and
\* ends main.
ModuleRaises ==
    /\ batch = "running"
    /\ module_index <= Len(evaluation_modules)
    /\ \/ raises(evaluation_modules[module_index], df_orig)
       \/ /\ evaluation_modules[module_index] = "MR Performance"
          /\ raises("PT Group Metrics", df_orig)
    /\ evaluation_module' = evaluation_modules[module_index]
    /\ batch' = "failed"
    /\ output_file' = workbook
    /\ UNCHANGED <<df_orig, pt_group_metrics, result_df, workbook, module_index,
                   download_filename>>

\* The loop is over: the with-block saves the workbook.
SaveWorkbook ==
    /\ batch = "running"
    /\ module_index > Len(evaluation_modules)
    /\ batch' = "saved"
    /\ output_file' = workbook
    /\ UNCHANGED <<df_orig, evaluation_module, pt_group_metrics, result_df,
                   workbook, module_index, download_filename>>

NextBatch ==
    \/ RunModule
    \/ RunModuleMRPerformance
    \/ ModuleRaises
    \/ SaveWorkbook

SpecBatch == InitBatch /\ [][NextBatch]_vars

-----------------------------------------------------------------------------
(* The two rule modules side by side                                       *)
(*                                                                         *)
(* The application run on chosen datasets, for the comparison of each table*)
(* it computes with the table the rule of ffe_groundrules.py computes from *)
(* the same dataset under its own column names.                            *)

\* The column names of ffe_groundrules and, for each, the name the same
\* column has in ffe_groundrules_test.
column_names ==
    [MR_Pos             |-> "mr_pos",
     MR_Name            |-> "mr_name",
     MR_Base_City       |-> "mr_base_city_name",
     DM_POS             |-> "dm_pos",
     DM_Name            |-> "dm_name",
     DM_Base_City       |-> "dm_base_city_name",
     DM_Base_Province   |-> "dm_base_province_name",
     RM_POS             |-> "rm_position_cd",
     RM_Name            |-> "rm_name",
     RM_Base_City       |-> "rm_base_city_name",
     RM_Base_Province   |-> "rm_base_province_name",
     PT_Group           |-> "pt_group",
     Province           |-> "hco_province_name",
     City               |-> "hco_city_name",
     Hospital_Code      |-> "hco_cd",
     R6M_Sales_Actual   |-> "r6m_actual_sales",
     Hospital_Potential |-> "hco_potential_value",
     Final_Target_24Q2  |-> "tyq2_target",
     Actual_2023Q2      |-> "lyq2_actual_sales",
     Actual_2024Q1      |-> "tyq1_actual_sales",
     Actual_2023Q1      |-> "lyq1_actual_sales"]

\* A column name under the mapping; a name the mapping does not list stays.
renamed(c) == IF c \in DOMAIN column_names THEN column_names[c] ELSE c

\* The row with its columns renamed.
rename_row(row) ==
    [n \in {renamed(c) : c \in DOMAIN row} |->
        row[CHOOSE c \in DOMAIN row : renamed(c) = n]]

\* df.rename(columns=column_names)
rename_columns(df) == [i \in DOMAIN df |-> rename_row(df[i])]

\* The column name of ffe_groundrules that the mapping renames to n.
original(n) ==
    IF \E c \in DOMAIN column_names : column_names[c] = n
    THEN CHOOSE c \in DOMAIN column_names : column_names[c] = n
    ELSE n

\* The table with the column names of ffe_groundrules put back.
OriginalColumns(t) ==
    [i \in DOMAIN t |->
        [c \in {original(n) : n \in DOMAIN t[i]} |->
            t[i][CHOOSE n \in DOMAIN t[i] : original(n) = c]]]

\* A row of a small dataset: one of two MR positions, each with a DM and an
\* RM of its own, in one of two cities (city c in province c, with facility
\* c), naming one of two PT groups, whose number is also its target.
EquivalenceRow(mr, city, group) ==
    [CoverageRow("split", mr, mr, mr, city, city, city, mr, 3 - city) EXCEPT
        !.pt_group = group, !.tyq2_target = group]

\* The datasets of the comparison: every dataset of 1..MaxEquivalenceRows
\* small rows, and from each family of the rules the datasets on which the
\* flags of the rules take both values:
\*  - coverage: MR 1 on its whole tour and one free row (three or four
\*    cities, base city aligned or not), and the mixed datasets whose rows
\*    sell 2, 2 and MaxMixedSales;
\*  - deployment: manager 1 with 5..MaxSpan subordinates and a first target
\*    of 0 or MaxTarget beside a manager 2 with MaxSpan - 2, plain or with a
\*    successor (spans on both sides of 6, 7, 8 and 10, productivities on
\*    both sides of 70% of the overall one);
\*  - personnel: provinces of 1 or MaxPeople MRs with targets 0 or
\*    MaxTarget and prior-year actuals 0 or MaxPrior;
\*  - performance: MR 1 with a current amount of 1 or MaxAmount \div 2 + 1
\*    beside MR 2 with 3 or MaxAmount (indices below 0.5, of 0.5, of 0.7 and
\*    above), prior-year amounts 0..1 and 1 or MaxPrior, and the wide
\*    datasets.
EquivalenceData ==
    {[i \in DOMAIN rows |->
         EquivalenceRow(rows[i][1], rows[i][2], rows[i][3])] :
        rows \in SeqsUpTo({1, 2} \X {1, 2} \X {1, 2}, MaxEquivalenceRows) \ {<<>>}}
    \cup
    {[i \in 1..MaxTour |-> CoverageRow(org, 1, 1, 1, 1, 2 + i, 1, 1, 2)] \o
     <<CoverageRow(org, pos, pos, pos, city, city, fac, 1, 3 - fac)>> :
        org \in {"split", "shared"}, pos \in {1, 2}, city \in {1, 2},
        fac \in {1, 2}}
    \cup
    {d \in MixedCoverageData :
        /\ d[1].r6m_actual_sales = 2
        /\ d[2].r6m_actual_sales = 2
        /\ d[3].r6m_actual_sales = MaxMixedSales}
    \cup
    {Deployment(shape, span1, MaxSpan - 2, first, kind) :
        shape \in {"dm", "rm"}, span1 \in 5..MaxSpan,
        first \in {0, MaxTarget}, kind \in {"plain", "successor"}}
    \cup
    {Personnel(people1, people2, target, actual1, MaxPrior, FALSE) :
        people1 \in {1, MaxPeople}, people2 \in {1, MaxPeople},
        target \in [1..2 -> {0, MaxTarget}], actual1 \in {0, MaxPrior}}
    \cup
    {Performance(quarter, current, prior) :
        quarter \in {"Q2", "Q1"},
        current \in {c \in [1..2 -> 0..MaxAmount] :
                        /\ c[1] \in {1, MaxAmount \div 2 + 1}
                        /\ c[2] \in {3, MaxAmount}},
        prior \in {q \in [1..2 -> 0..MaxPrior] :
                      /\ q[1] \in {1, MaxPrior}
                      /\ q[2] \in {0, 1}}}
    \cup WideData

(* The front end of ffe.py.  It offers six of the rules, those of            *)
(* ffe_groundrules.py, and has no button: every run of the script, the one  *)
(* the upload causes and the one a change of the option causes, evaluates   *)
(* the rule of the option shown, leaves its table in result_df and saves it *)
(* as a workbook of one sheet.  load_data renames the target column of the  *)
(* uploaded file.  The state machine shares the variables of ffe_test.py.   *)

\* df_orig.rename(columns={' 24Q2 Final Target': '24Q2 Final Target'}); the
\* files never hold both columns.
load_data_ffe(file) ==
    [i \in DOMAIN file |->
        [c \in {IF n = " 24Q2 Final Target" THEN "Final_Target_24Q2" ELSE n :
                    n \in DOMAIN file[i]} |->
            IF c = "Final_Target_24Q2" /\ " 24Q2 Final Target" \in DOMAIN file[i]
            THEN file[i][" 24Q2 Final Target"]
            ELSE file[i][c]]]

\* The table with its target column under the name the field list of line 18
\* asks for, ' 24Q2 Final Target'.
with_leading_space(t) ==
    [i \in DOMAIN t |->
        [c \in (DOMAIN t[i] \ {"Final_Target_24Q2"}) \cup {" 24Q2 Final Target"} |->
            IF c = " 24Q2 Final Target" THEN t[i].Final_Target_24Q2 ELSE t[i][c]]]

\* The files uploaded to ffe.py: the datasets of the comparison under the
\* column names of ffe_groundrules, the target column named with or without
\* the leading space.
FfeFiles ==
    UNION {{OriginalColumns(d), with_leading_space(OriginalColumns(d))} :
              d \in EquivalenceData}

\* The options of the select box of line 34.
evaluation_modules_ffe ==
    <<"MR City Coverage", "Personnel Deployment", "DM Deployment",
      "RM Deployment", "PT Group Metrics", "MR Performance">>

\* The branches of lines 37-49.
module_func_ffe(module_name, df) ==
    CASE module_name = "MR City Coverage"     -> evaluate_mr_city_coverage_groundrules(df)
      [] module_name = "Personnel Deployment" -> check_personnel_deployment_groundrules(df)
      [] module_name = "DM Deployment"        -> evaluate_dm_deployment_groundrules(df)
      [] module_name = "RM Deployment"        -> evaluate_rm_deployment_groundrules(df)
      [] module_name = "PT Group Metrics"     -> calculate_pt_group_metrics_groundrules(df)
      [] module_name = "MR Performance"       ->
             evaluate_mr_performance_groundrules(
                 df, calculate_pt_group_metrics_groundrules(df))

\* One run of the script of ffe.py with the select box showing `option`: the
\* rule of the option is evaluated; result_df is not None, so it is written to
\* the file download_filename (a workbook of the one sheet 'Sheet1', saved)
\* and offered for download.
main_ffe(option) ==
    /\ evaluation_module' = option
    /\ result_df' = module_func_ffe(option, df_orig)
    /\ pt_group_metrics' = IF option = "MR Performance"
                           THEN calculate_pt_group_metrics_groundrules(df_orig)
                           ELSE <<>>
    /\ download_filename' = result_filename(option)
    /\ workbook' = to_excel(<<>>, "Sheet1", result_df')
    /\ module_index' = 0
    /\ batch' = "off"
    /\ output_file' = workbook'
    /\ UNCHANGED df_orig

\* The script run that follows the upload to ffe.py: the select box shows its
\* first option, whose rule is evaluated and saved.
InitFfe ==
    /\ df_orig \in {load_data_ffe(file) : file \in FfeFiles}
    /\ evaluation_module = evaluation_modules_ffe[1]
    /\ result_df = module_func_ffe(evaluation_module, df_orig)
    /\ pt_group_metrics = <<>>
    /\ download_filename = result_filename(evaluation_module)
    /\ workbook = to_excel(<<>>, "Sheet1", result_df)
    /\ module_index = 0
    /\ batch = "off"
    /\ output_file = workbook

NextFfe == \E option \in Range(evaluation_modules_ffe) : main_ffe(option)

\* The dataset carries the column names of ffe_groundrules: the file was
\* uploaded to ffe.py (a file for ffe_test.py carries mr_pos).
UploadedToFfe == "MR_Pos" \in columns(df_orig)

\* A file goes to the program whose column names it carries.
InitEquivalence == (df_orig \in EquivalenceData /\ NoRun) \/ InitFfe

NextEquivalence ==
    \/ ~UploadedToFfe /\ Next
    \/ UploadedToFfe /\ NextFfe

SpecEquivalence == InitEquivalence /\ [][NextEquivalence]_vars

-----------------------------------------------------------------------------
(* Properties                                                              *)

\* The rows of the dataset that satisfy P, in dataset order.
InputRows(P(_)) == SelectSeq(df_orig, P)

Ran(module) == evaluation_module = module /\ result_df # <<>>

\* C1: in the MR City Coverage table a row's base_city_aligned is 'Yes' exactly
\* when the row's MR base city equals the row's top_sales_city or the row's
\* top_potential_city, and 'No' otherwise.
C1_BaseCityAligned ==
    Ran("MR City Coverage") =>
        \A i \in DOMAIN result_df :
            LET row == result_df[i]
            IN  /\ row.base_city_aligned \in {"Yes", "No"}
                /\ row.base_city_aligned = "Yes" <=>
                       \/ row.mr_base_city_name = row.top_sales_city
                       \/ row.mr_base_city_name = row.top_potential_city

\* C1 witness: one MR is aligned through its top potential city only, another
\* MR is not aligned.
C1_Witness ==
    /\ Ran("MR City Coverage")
    /\ \E i, j \in DOMAIN result_df :
        /\ result_df[i].base_city_aligned = "Yes"
        /\ result_df[i].mr_base_city_name # result_df[i].top_sales_city
        /\ result_df[i].mr_base_city_name = result_df[i].top_potential_city
        /\ result_df[j].base_city_aligned = "No"

\* C2: for every MR position of the dataset, num_cities_covered on its rows of
\* the MR City Coverage table is the number of distinct cities among that MR's
\* dataset rows, and multi_city_coverage is 'Yes' exactly when that number is
\* greater than 3.
C2_CitiesCovered ==
    Ran("MR City Coverage") =>
        /\ \A k \in DOMAIN df_orig :
               \E i \in DOMAIN result_df : result_df[i].mr_pos = df_orig[k].mr_pos
        /\ \A i \in DOMAIN result_df :
               LET row    == result_df[i]
                   mine   == InputRows(LAMBDA r : r.mr_pos = row.mr_pos)
                   cities == {mine[k].hco_city_name : k \in DOMAIN mine}
               IN  /\ row.num_cities_covered = Cardinality(cities)
                   /\ row.multi_city_coverage =
                          (IF Cardinality(cities) > 3 THEN "Yes" ELSE "No")

\* C2 witness: an MR with four cities is flagged, an MR with fewer is not.
C2_Witness ==
    /\ Ran("MR City Coverage")
    /\ \E i, j \in DOMAIN result_df :
        /\ result_df[i].num_cities_covered = 4
        /\ result_df[i].multi_city_coverage = "Yes"
        /\ result_df[j].num_cities_covered < 4
        /\ result_df[j].multi_city_coverage = "No"

\* C3: span_range_check is 'Yes' on a DM Deployment row exactly when
\* 6 <= span_of_control <= 10, and on an RM Deployment row exactly when
\* 6 <= span_of_control <= 8.
C3_SpanRangeCheck ==
    /\ Ran("DM Deployment") =>
           \A i \in DOMAIN result_df :
               result_df[i].span_range_check =
                   (IF result_df[i].span_of_control \in 6..10 THEN "Yes" ELSE "No")
    /\ Ran("RM Deployment") =>
           \A i \in DOMAIN result_df :
               result_df[i].span_range_check =
                   (IF result_df[i].span_of_control \in 6..8 THEN "Yes" ELSE "No")

\* C3 witness: an RM with 9 DMs fails the range check, and the DM rule passes
\* a DM span of 9 on the same scale.
C3_Witness ==
    /\ Ran("RM Deployment")
    /\ \E i \in DOMAIN result_df :
        /\ result_df[i].span_of_control = 9
        /\ result_df[i].span_range_check = "No"
        /\ dm_span_range_check(result_df[i].span_of_control) = "Yes"

\* Totals of the dataset, taken row by row.
TotalTarget == ColSum(df_orig, LAMBDA r : r.tyq2_target)
TotalActual == ColSum(df_orig, LAMBDA r : r.lyq2_actual_sales)

\* C4: a DM Deployment row has violation 'Yes' exactly when its span_of_control
\* is below 7 and the target summed over the DM position's dataset rows is
\* strictly below 0.7 x (total target / number of distinct DM positions); at
\* exactly 70% the row has 'No'.  (p < 0.7 * T / n  <=>  10 p n < 7 T.)
C4_DMViolation ==
    Ran("DM Deployment") =>
        \A i \in DOMAIN result_df :
            LET row  == result_df[i]
                mine == InputRows(LAMBDA r : r.dm_pos = row.dm_pos)
                p    == ColSum(mine, LAMBDA r : r.tyq2_target)
                n    == Cardinality({df_orig[k].dm_pos : k \in DOMAIN df_orig})
            IN  /\ row.productivity = p
                /\ row.violation =
                       (IF row.span_of_control < 7 /\ 10 * p * n < 7 * TotalTarget
                        THEN "Yes" ELSE "No")

\* C4 witness: a DM with exactly 6 MRs whose target is exactly 70% of the
\* overall DM productivity, not flagged.
C4_Witness ==
    /\ Ran("DM Deployment")
    /\ \E i \in DOMAIN result_df :
        /\ result_df[i].span_of_control = 6
        /\ result_df[i].productivity > 0
        /\ 10 * result_df[i].productivity
              * Cardinality({df_orig[k].dm_pos : k \in DOMAIN df_orig})
           = 7 * TotalTarget
        /\ result_df[i].violation = "No"

\* C5: an RM Deployment row has violation 'Yes' exactly when its span_of_control
\* is below 6 and the target summed over the RM position's dataset rows is
\* strictly below 0.7 x (total target / number of distinct RM positions); an RM
\* with span 6 is never a violation.
C5_RMViolation ==
    Ran("RM Deployment") =>
        \A i \in DOMAIN result_df :
            LET row  == result_df[i]
                mine == InputRows(LAMBDA r : r.rm_position_cd = row.rm_position_cd)
                p    == ColSum(mine, LAMBDA r : r.tyq2_target)
                n    == Cardinality({df_orig[k].rm_position_cd : k \in DOMAIN df_orig})
            IN  /\ row.productivity = p
                /\ row.violation =
                       (IF row.span_of_control < 6 /\ 10 * p * n < 7 * TotalTarget
                        THEN "Yes" ELSE "No")
                /\ row.span_of_control = 6 => row.violation = "No"

\* C5 witness: an RM with exactly 6 DMs and a target below 70% of the overall
\* RM productivity, not flagged.
C5_Witness ==
    /\ Ran("RM Deployment")
    /\ \E i \in DOMAIN result_df :
        /\ result_df[i].span_of_control = 6
        /\ 10 * result_df[i].productivity
              * Cardinality({df_orig[k].rm_position_cd : k \in DOMAIN df_orig})
           < 7 * TotalTarget
        /\ result_df[i].violation = "No"

\* The per-province figures of the dataset, taken row by row.
ProvinceRows(prov)   == InputRows(LAMBDA r : r.hco_province_name = prov)
ProvinceTarget(prov) == ColSum(ProvinceRows(prov), LAMBDA r : r.tyq2_target)
ProvinceActual(prov) == ColSum(ProvinceRows(prov), LAMBDA r : r.lyq2_actual_sales)
ProvincePeople(prov) ==
    Cardinality({ProvinceRows(prov)[k].mr_pos : k \in DOMAIN ProvinceRows(prov)})
Provinces == {df_orig[k].hco_province_name : k \in DOMAIN df_orig}

\* Sum of the per-province MR counts: an MR of k provinces counts k times.
RECURSIVE PeopleTotal(_)
PeopleTotal(S) ==
    IF S = {} THEN 0
    ELSE LET x == CHOOSE y \in S : TRUE
         IN  ProvincePeople(x) + PeopleTotal(S \ {x})

\* C6: a Personnel Deployment row has violation 'Y' exactly when the province's
\* productivity 4 T_p / n_p is strictly below 4 T / N and its growth rate
\* T_p / A_p - 1 is strictly below T / A - 1, where T and A are the total target
\* and total prior-year actual and N is the sum of the per-province MR counts;
\* equality on either metric gives 'N'.  (An undefined or infinite growth rate,
\* A_p = 0, is not below anything.)
C6_PersonnelViolation ==
    Ran("Personnel Deployment") =>
        \A i \in DOMAIN result_df :
            LET row == result_df[i]
                tp  == ProvinceTarget(row.hco_province_name)
                ap  == ProvinceActual(row.hco_province_name)
                np  == ProvincePeople(row.hco_province_name)
                low_productivity == tp * PeopleTotal(Provinces) < TotalTarget * np
                low_growth       == ap > 0 /\ tp * TotalActual < TotalTarget * ap
            IN  row.violation = (IF low_productivity /\ low_growth THEN "Y" ELSE "N")

\* C6 witness: MRs work in both provinces, so the overall head count exceeds the
\* distinct MRs of the dataset; one province is flagged and the other is not.
C6_Witness ==
    /\ Ran("Personnel Deployment")
    /\ PeopleTotal(Provinces)
           > Cardinality({df_orig[k].mr_pos : k \in DOMAIN df_orig})
    /\ \E i, j \in DOMAIN result_df :
        /\ result_df[i].violation = "Y"
        /\ result_df[j].violation = "N"

\* The potential of a set of dataset rows with every facility counted once:
\* per facility id, the potential of its first row.
FacilityPotentialOnce(rows) ==
    LET first == {i \in DOMAIN rows :
                     \A j \in 1..(i - 1) : rows[j].hco_cd # rows[i].hco_cd}
        RECURSIVE Total(_)
        Total(S) == IF S = {} THEN 0
                    ELSE LET i == CHOOSE x \in S : TRUE
                         IN  rows[i].hco_potential_value + Total(S \ {i})
    IN  Total(first)

\* A cell of a result table as an amount: a missing cell adds nothing to a sum.
Amount(x) == IF x = NaN THEN 0 ELSE x

OutputPotential(P(_)) ==
    ColSum(SelectSeq(result_df, P), LAMBDA r : Amount(r.hco_potential_value))
OutputSales(P(_)) ==
    ColSum(SelectSeq(result_df, P), LAMBDA r : Amount(r.r6m_actual_sales))

\* C7: in the DM City Coverage table the potential reported for a (DM position,
\* city) counts every facility of that DM's dataset rows in the city once, and
\* the sales reported are the sales of all those rows; the RM Coverage table
\* does the same per (RM position, province).
C7_PotentialOncePerFacility ==
    /\ Ran("DM City Coverage") =>
           \A k \in DOMAIN df_orig :
               LET pos  == df_orig[k].dm_pos
                   city == df_orig[k].hco_city_name
                   rows == InputRows(LAMBDA r : r.dm_pos = pos /\ r.hco_city_name = city)
               IN  /\ OutputPotential(LAMBDA r : r.dm_pos = pos /\ r.hco_city_name = city)
                          = FacilityPotentialOnce(rows)
                   /\ OutputSales(LAMBDA r : r.dm_pos = pos /\ r.hco_city_name = city)
                          = ColSum(rows, LAMBDA r : r.r6m_actual_sales)
    /\ Ran("RM Coverage") =>
           \A k \in DOMAIN df_orig :
               LET pos  == df_orig[k].rm_position_cd
                   prov == df_orig[k].hco_province_name
                   rows == InputRows(LAMBDA r : r.rm_position_cd = pos /\ r.hco_province_name = prov)
               IN  /\ OutputPotential(LAMBDA r : r.rm_position_cd = pos /\ r.hco_province_name = prov)
                          = FacilityPotentialOnce(rows)
                   /\ OutputSales(LAMBDA r : r.rm_position_cd = pos /\ r.hco_province_name = prov)
                          = ColSum(rows, LAMBDA r : r.r6m_actual_sales)

\* C7 witness: two dataset rows of one (DM position, city, facility) with
\* different sales; the table row carries the facility's potential once and
\* both sales.
C7_Witness ==
    /\ Ran("DM City Coverage")
    /\ \E a, b \in DOMAIN df_orig :
        /\ a < b
        /\ df_orig[a].dm_pos = df_orig[b].dm_pos
        /\ df_orig[a].hco_city_name = df_orig[b].hco_city_name
        /\ df_orig[a].hco_cd = df_orig[b].hco_cd
        /\ df_orig[a].r6m_actual_sales # df_orig[b].r6m_actual_sales
        /\ \E i \in DOMAIN result_df :
            /\ result_df[i].dm_pos = df_orig[a].dm_pos
            /\ result_df[i].hco_city_name = df_orig[a].hco_city_name
            /\ result_df[i].hco_potential_value = df_orig[a].hco_potential_value
            /\ result_df[i].r6m_actual_sales =
                   df_orig[a].r6m_actual_sales + df_orig[b].r6m_actual_sales

\* C8: in the MR City Coverage table the potential reported for an (MR position,
\* city) counts every facility of that MR's dataset rows in the city once, not
\* once per row.
C8_MRPotentialOncePerFacility ==
    Ran("MR City Coverage") =>
        \A k \in DOMAIN df_orig :
            LET pos  == df_orig[k].mr_pos
                city == df_orig[k].hco_city_name
                rows == InputRows(LAMBDA r : r.mr_pos = pos /\ r.hco_city_name = city)
            IN  OutputPotential(LAMBDA r : r.mr_pos = pos /\ r.hco_city_name = city)
                    = FacilityPotentialOnce(rows)

\* C9: in the DM City Coverage table cross_province is 'Yes' on a row exactly
\* when its province differs from the DM's base province, and cross_province_all
\* is 'Yes' on every row of a DM position with at least one such row and 'No' on
\* every row of a DM position without one.
C9_CrossProvinceAll ==
    Ran("DM City Coverage") =>
        \A i \in DOMAIN result_df :
            LET row == result_df[i]
            IN  /\ row.cross_province =
                       (IF row.hco_province_name # row.dm_base_province_name THEN "Yes" ELSE "No")
                /\ row.cross_province_all =
                       (IF \E j \in DOMAIN result_df :
                               /\ result_df[j].dm_pos = row.dm_pos
                               /\ result_df[j].cross_province = "Yes"
                        THEN "Yes" ELSE "No")
                /\ \A j \in DOMAIN result_df :
                       result_df[j].dm_pos = row.dm_pos =>
                           result_df[j].cross_province_all = row.cross_province_all

\* C9 witness: a DM with a row inside and a row outside its base province, both
\* rows flagged 'Yes', next to a DM that stays in its base province.
C9_Witness ==
    /\ Ran("DM City Coverage")
    /\ \E i, j, k \in DOMAIN result_df :
        /\ result_df[i].dm_pos = result_df[j].dm_pos
        /\ result_df[i].cross_province = "No"
        /\ result_df[j].cross_province = "Yes"
        /\ result_df[i].cross_province_all = "Yes"
        /\ result_df[k].cross_province_all = "No"

\* The PT-group row MR Performance was given for a group.
GroupMetrics(group) ==
    CHOOSE m \in Range(pt_group_metrics) : m.pt_group = group

\* x < p/q, p/q <= x <= r/s and x < y on float cells, by cross-multiplication;
\* an undefined cell satisfies none, an infinite one is below nothing.
\* A cell whose fraction equals the bound is told from it by its rounding: the
\* literals 0.5 and 0.7 are the doubles nearest 1/2 and 7/10.
IsBelow(x, p, q) ==
    /\ x.k = "fin"
    /\ \/ x.n * q < p * x.d
       \/ x.n * q = p * x.d /\ x.u < 0
IsWithin(x, p, q, r, s) ==
    /\ x.k = "fin"
    /\ \/ p * x.d < x.n * q
       \/ p * x.d = x.n * q /\ x.u >= 0
    /\ \/ x.n * s < r * x.d
       \/ x.n * s = r * x.d /\ x.u <= 0
IsLess(x, y) ==
    /\ x.k = "fin"
    /\ \/ y.k = "inf"
       \/ y.k = "fin" /\ x.n * y.d < y.n * x.d
       \/ y.k = "fin" /\ x.n * y.d = y.n * x.d /\ x.u < y.u

\* C10: on an MR Performance row, Q2_Productivity_Index_Low is 'Yes' exactly
\* when Q2_Productivity_Index < 0.5, and
\* Q2_Growth_Low_and_Productivity_Index_Medium is 'Yes' exactly when Q2_Growth is
\* strictly below the 24Q2_growth_rate of the MR's PT group and
\* 0.5 <= Q2_Productivity_Index <= 0.7; the Q1 flags likewise with the Q1 cells.
C10_PerformanceFlags ==
    Ran("MR Performance") =>
        \A i \in DOMAIN result_df :
            LET row   == result_df[i]
                group == GroupMetrics(row.pt_group)
            IN  /\ row.Q2_Productivity_Index_Low =
                       (IF IsBelow(row.Q2_Productivity_Index, 1, 2)
                        THEN "Yes" ELSE "No")
                /\ row.Q2_Growth_Low_and_Productivity_Index_Medium =
                       (IF /\ IsLess(row.Q2_Growth, group.growth_rate_24Q2)
                           /\ IsWithin(row.Q2_Productivity_Index, 1, 2, 7, 10)
                        THEN "Yes" ELSE "No")
                /\ row.Q1_Productivity_Index_Low =
                       (IF IsBelow(row.Q1_Productivity_Index, 1, 2)
                        THEN "Yes" ELSE "No")
                /\ row.Q1_Growth_Low_and_Productivity_Index_Medium =
                       (IF /\ IsLess(row.Q1_Growth, group.growth_rate_24Q1)
                           /\ IsWithin(row.Q1_Productivity_Index, 1, 2, 7, 10)
                        THEN "Yes" ELSE "No")

\* C10 witness: an MR whose Q2 index is exactly 0.7 and whose growth is below
\* its group's: the medium flag is 'Yes' and the low flag 'No'.
C10_Witness ==
    /\ Ran("MR Performance")
    /\ \E i \in DOMAIN result_df :
        LET row == result_df[i]
        IN  /\ row.Q2_Productivity_Index.k = "fin"
            /\ 10 * row.Q2_Productivity_Index.n = 7 * row.Q2_Productivity_Index.d
            /\ row.Q2_Productivity_Index.d > 0
            /\ row.Q2_Growth_Low_and_Productivity_Index_Medium = "Yes"
            /\ row.Q2_Productivity_Index_Low = "No"

\* The rounding is part of the cell: in a PT group of seven MRs with a target
\* total of 30 the index of an MR with target 3 is the double above 0.7, and
\* with growth below the group's the medium flag is 'No'.
C10_WitnessRounded ==
    /\ Ran("MR Performance")
    /\ \E i \in DOMAIN result_df :
        LET row == result_df[i]
        IN  /\ row.Q2_Productivity_Index = FinU(21, 30, 1)
            /\ IsLess(row.Q2_Growth, GroupMetrics(row.pt_group).growth_rate_24Q2)
            /\ row.Q2_Growth_Low_and_Productivity_Index_Medium = "No"
            /\ row.Q2_Productivity_Index_Low = "No"

\* A float cell that holds a marker instead of a number: inf or nan.
IsMarker(x) == x.k \in {"inf", "nan"}

PTGroups == {df_orig[k].pt_group : k \in DOMAIN df_orig}
PTGroupRows(group) == InputRows(LAMBDA r : r.pt_group = group)

\* C12: a division by zero does not stop a rule.  Personnel Deployment returns a
\* row for every province of the dataset, and where the province's summed
\* prior-year actual is 0 the growth_rate cell holds inf or nan and violation is
\* 'N'; no row whose growth_rate is such a marker has violation 'Y'.  PT Group
\* Metrics returns a row for every PT group, and where the group's summed
\* 2023Q2 actual is 0 the 24Q2 growth rate cell holds inf or nan.
C12_DivisionByZero ==
    /\ Ran("Personnel Deployment") =>
        /\ {result_df[i].hco_province_name : i \in DOMAIN result_df} = Provinces
        /\ \A i \in DOMAIN result_df :
            LET row == result_df[i]
            IN  /\ ProvinceActual(row.hco_province_name) = 0 <=> IsMarker(row.growth_rate)
                /\ IsMarker(row.growth_rate) => row.violation = "N"
    /\ Ran("PT Group Metrics") =>
        /\ {result_df[i].pt_group : i \in DOMAIN result_df} = PTGroups
        /\ \A i \in DOMAIN result_df :
            LET row == result_df[i]
                a   == ColSum(PTGroupRows(row.pt_group), LAMBDA r : r.lyq2_actual_sales)
            IN  a = 0 <=> IsMarker(row.growth_rate_24Q2)

\* C12 witness: a province with target 0 over a prior-year actual of 0 (nan)
\* whose productivity is below the overall productivity, next to a province
\* with a finite growth rate; the first is not flagged.
C12_Witness ==
    /\ Ran("Personnel Deployment")
    /\ \E i, j \in DOMAIN result_df :
        /\ result_df[i].growth_rate.k = "nan"
        /\ ProvinceTarget(result_df[i].hco_province_name) = 0
        /\ ProvinceTarget(result_df[j].hco_province_name) > 0
        /\ result_df[j].growth_rate.k = "fin"
        /\ result_df[i].violation = "N"

\* C16: on a row of the RM Coverage table multiple_rms is 'Yes' exactly when at
\* least 2 distinct RM positions have rows of the table for the row's province
\* (they are the RM positions with dataset rows in that province), and 'No'
\* when one RM covers it; the rows of one province carry the same value.
C16_MultipleRMs ==
    Ran("RM Coverage") =>
        \A i \in DOMAIN result_df :
            LET row == result_df[i]
                rms == {result_df[j].rm_position_cd :
                            j \in {n \in DOMAIN result_df :
                                       result_df[n].hco_province_name = row.hco_province_name}}
                src == InputRows(LAMBDA r : r.hco_province_name = row.hco_province_name)
            IN  /\ rms = {src[k].rm_position_cd : k \in DOMAIN src}
                /\ row.multiple_rms = (IF Cardinality(rms) >= 2 THEN "Yes" ELSE "No")
                /\ \A j \in DOMAIN result_df :
                       result_df[j].hco_province_name = row.hco_province_name =>
                           result_df[j].multiple_rms = row.multiple_rms

\* C16 witness: a province two RMs cover, flagged on the rows of both, and a
\* province covered by one of them only.
C16_Witness ==
    /\ Ran("RM Coverage")
    /\ \E i, j, k \in DOMAIN result_df :
        /\ result_df[i].hco_province_name = result_df[j].hco_province_name
        /\ result_df[i].rm_position_cd # result_df[j].rm_position_cd
        /\ result_df[i].multiple_rms = "Yes"
        /\ result_df[j].multiple_rms = "Yes"
        /\ result_df[k].rm_position_cd = result_df[i].rm_position_cd
        /\ result_df[k].multiple_rms = "No"

\* The dataset rows of an MR position in a city, and their sums.
MRCityRows(pos, city) == InputRows(LAMBDA r : r.mr_pos = pos /\ r.hco_city_name = city)
MRCities(pos) == {df_orig[k].hco_city_name : k \in {n \in DOMAIN df_orig : df_orig[n].mr_pos = pos}}
MRCitySales(pos, city) == ColSum(MRCityRows(pos, city), LAMBDA r : r.r6m_actual_sales)
MRCityPotential(pos, city) ==
    ColSum(MRCityRows(pos, city), LAMBDA r : r.hco_potential_value)

\* The group key of an MR's city: MR position, MR name, province, city, base city.
MRCityKey(pos, city) ==
    LET r == MRCityRows(pos, city)[1]
    IN  <<r.mr_pos, r.mr_name, r.hco_province_name, r.hco_city_name, r.mr_base_city_name>>

\* Every MR position of the dataset has one name and one base city, and each of
\* its cities one province: one group key of line 22 per (MR position, city).
OneKeyPerMRCity ==
    \A k, l \in DOMAIN df_orig :
        df_orig[k].mr_pos = df_orig[l].mr_pos =>
            /\ df_orig[k].mr_name = df_orig[l].mr_name
            /\ df_orig[k].mr_base_city_name = df_orig[l].mr_base_city_name
            /\ df_orig[k].hco_city_name = df_orig[l].hco_city_name =>
                   df_orig[k].hco_province_name = df_orig[l].hco_province_name

\* C18: on every row of the MR City Coverage table top_sales_city is a city of
\* the row's MR whose sales, summed over all dataset rows of the MR, are the
\* largest among the MR's cities, and every other city with the same sum comes
\* later in the ascending order of the group key (MR position, MR name,
\* province, city, base city); top_potential_city likewise by summed potential.
C18_TopCity ==
    Ran("MR City Coverage") =>
        \A i \in DOMAIN result_df :
            LET pos == result_df[i].mr_pos
                ts  == result_df[i].top_sales_city
                tp  == result_df[i].top_potential_city
            IN  /\ ts \in MRCities(pos)
                /\ tp \in MRCities(pos)
                /\ \A c \in MRCities(pos) \ {ts} :
                       \/ MRCitySales(pos, c) < MRCitySales(pos, ts)
                       \/ /\ MRCitySales(pos, c) = MRCitySales(pos, ts)
                          /\ LexLess(MRCityKey(pos, ts), MRCityKey(pos, c))
                /\ \A c \in MRCities(pos) \ {tp} :
                       \/ MRCityPotential(pos, c) < MRCityPotential(pos, tp)
                       \/ /\ MRCityPotential(pos, c) = MRCityPotential(pos, tp)
                          /\ LexLess(MRCityKey(pos, tp), MRCityKey(pos, c))

\* C18 on the datasets with one group key per (MR position, city).
C18_TopCityOneKey == OneKeyPerMRCity => C18_TopCity

\* C19: the MR City Coverage table has exactly one row for every (MR position,
\* city) pair of the dataset and no other row, and the rows of one MR position
\* agree on num_cities_covered, multi_city_coverage, top_sales_city,
\* top_potential_city and base_city_aligned.
C19_OneRowPerMRCity ==
    Ran("MR City Coverage") =>
        /\ \A k \in DOMAIN df_orig :
               Cardinality({i \in DOMAIN result_df :
                                /\ result_df[i].mr_pos = df_orig[k].mr_pos
                                /\ result_df[i].hco_city_name = df_orig[k].hco_city_name}) = 1
        /\ \A i \in DOMAIN result_df :
               MRCityRows(result_df[i].mr_pos, result_df[i].hco_city_name) # <<>>
        /\ \A i, j \in DOMAIN result_df :
               result_df[i].mr_pos = result_df[j].mr_pos =>
                   /\ result_df[i].num_cities_covered = result_df[j].num_cities_covered
                   /\ result_df[i].multi_city_coverage = result_df[j].multi_city_coverage
                   /\ result_df[i].top_sales_city = result_df[j].top_sales_city
                   /\ result_df[i].top_potential_city = result_df[j].top_potential_city
                   /\ result_df[i].base_city_aligned = result_df[j].base_city_aligned

\* C19 on the datasets with one group key per (MR position, city).
C19_OneRowPerMRCityOneKey == OneKeyPerMRCity => C19_OneRowPerMRCity

\* The dataset rows of a DM position and of an RM position.
DMRows(pos) == InputRows(LAMBDA r : r.dm_pos = pos)
RMRows(pos) == InputRows(LAMBDA r : r.rm_position_cd = pos)

\* C20: the DM Deployment table has exactly one row for every DM position of
\* the dataset and no other row; the row's span_of_control is the number of
\* distinct MR positions among the dataset rows of the DM position and its
\* productivity the target summed over the same rows.  The RM Deployment table
\* likewise, per RM position, with the distinct DM positions.
C20_OneRowPerManager ==
    /\ Ran("DM Deployment") =>
        /\ \A k \in DOMAIN df_orig :
               Cardinality({i \in DOMAIN result_df :
                                result_df[i].dm_pos = df_orig[k].dm_pos}) = 1
        /\ \A i \in DOMAIN result_df :
            LET rows == DMRows(result_df[i].dm_pos)
            IN  /\ rows # <<>>
                /\ result_df[i].span_of_control =
                       Cardinality({rows[k].mr_pos : k \in DOMAIN rows})
                /\ result_df[i].productivity =
                       ColSum(rows, LAMBDA r : r.tyq2_target)
    /\ Ran("RM Deployment") =>
        /\ \A k \in DOMAIN df_orig :
               Cardinality({i \in DOMAIN result_df :
                                result_df[i].rm_position_cd = df_orig[k].rm_position_cd}) = 1
        /\ \A i \in DOMAIN result_df :
            LET rows == RMRows(result_df[i].rm_position_cd)
            IN  /\ rows # <<>>
                /\ result_df[i].span_of_control =
                       Cardinality({rows[k].dm_pos : k \in DOMAIN rows})
                /\ result_df[i].productivity =
                       ColSum(rows, LAMBDA r : r.tyq2_target)

\* Every DM position and every RM position of the dataset has one name.
OneNamePerManager ==
    \A k, l \in DOMAIN df_orig :
        /\ df_orig[k].dm_pos = df_orig[l].dm_pos =>
               df_orig[k].dm_name = df_orig[l].dm_name
        /\ df_orig[k].rm_position_cd = df_orig[l].rm_position_cd =>
               df_orig[k].rm_name = df_orig[l].rm_name

\* C20 on the datasets where every manager position has one name.
C20_OneRowPerManagerOneName == OneNamePerManager => C20_OneRowPerManager

\* The dataset rows of an MR position.
MRRows(pos) == InputRows(LAMBDA r : r.mr_pos = pos)

\* C11: the MR Performance table has exactly one row for every MR position of
\* the dataset; the row carries the sums of the four sales/target columns over
\* the dataset rows of the MR and one of the PT groups of those rows, whether the
\* MR's rows name one PT group or several.
C11_OneRowPerMR ==
    Ran("MR Performance") =>
        /\ \A k \in DOMAIN df_orig :
               Cardinality({i \in DOMAIN result_df :
                                result_df[i].mr_pos = df_orig[k].mr_pos}) = 1
        /\ \A i \in DOMAIN result_df :
            LET rows == MRRows(result_df[i].mr_pos)
            IN  /\ rows # <<>>
                /\ result_df[i].pt_group \in {rows[k].pt_group : k \in DOMAIN rows}
                /\ result_df[i].lyq1_actual_sales = ColSum(rows, LAMBDA r : r.lyq1_actual_sales)
                /\ result_df[i].lyq2_actual_sales = ColSum(rows, LAMBDA r : r.lyq2_actual_sales)
                /\ result_df[i].tyq1_actual_sales = ColSum(rows, LAMBDA r : r.tyq1_actual_sales)
                /\ result_df[i].tyq2_target =
                       ColSum(rows, LAMBDA r : r.tyq2_target)

-----------------------------------------------------------------------------
(* Batch run                                                               *)

\* C13: no rule changes its inputs.  Over every iteration of a batch run the
\* dataset stays equal to what it was, and the PT-group table, once computed
\* from the dataset and passed to evaluate_mr_performance, stays equal to
\* calculate_pt_group_metrics of the dataset for the rest of the run.
C13_InputsUnchanged ==
    [][/\ df_orig' = df_orig
       /\ pt_group_metrics # <<>> => pt_group_metrics' = pt_group_metrics
       /\ pt_group_metrics' # <<>> =>
              pt_group_metrics' = calculate_pt_group_metrics(df_orig)]_vars

\* A full batch run over a two-row dataset: all eight rules were called,
\* evaluate_mr_performance with its PT-group table among them.
C13_Witness ==
    /\ batch = "saved"
    /\ Len(workbook) = 8
    /\ Len(df_orig) = 2
    /\ pt_group_metrics # <<>>
    /\ Len(result_df) >= 1

\* The module names in the order the batch run is said to follow.
FixedListOrder ==
    <<"MR City Coverage", "Personnel Deployment", "DM Deployment",
      "RM Deployment", "PT Group Metrics", "MR Performance",
      "DM City Coverage", "RM Coverage">>

\* C17: in a batch run the sheets written so far are the results of the
\* first rules of the fixed list, in list order, one sheet per rule named by
\* the rule, the next rule to run being the one after the last sheet; the
\* MR Performance sheet is evaluate_mr_performance of the dataset and the
\* table of the PT Group Metrics sheet, which is the PT-group table of the
\* run; the workbook of a run that ends has all eight sheets, and the file
\* the writer saves holds the sheets written, nothing before the run is over.
C17_BatchOrder ==
    batch # "off" =>
        /\ Len(workbook) <= Len(FixedListOrder)
        /\ \A i \in 1..Len(workbook) :
               /\ workbook[i].sheet_name = FixedListOrder[i]
               /\ FixedListOrder[i] # "MR Performance" =>
                      workbook[i].table = module_func(FixedListOrder[i], df_orig)
        /\ batch = "running" => module_index = Len(workbook) + 1
        /\ (Len(workbook) >= 1 /\ batch # "failed") =>
               /\ evaluation_module = workbook[Len(workbook)].sheet_name
               /\ result_df = workbook[Len(workbook)].table
        /\ Len(workbook) < 6 => pt_group_metrics = <<>>
        /\ Len(workbook) >= 6 =>
               /\ pt_group_metrics = workbook[5].table
               /\ pt_group_metrics = calculate_pt_group_metrics(df_orig)
               /\ workbook[6].table = evaluate_mr_performance(df_orig, workbook[5].table)
        /\ batch = "saved" => Len(workbook) = Len(FixedListOrder)
        /\ batch \in {"saved", "failed"} => output_file = workbook
        /\ batch = "running" => output_file = <<>>

\* A saved batch run: eight sheets, the sixth of them the MR Performance
\* sheet with a row for each of two MRs.
C17_Witness ==
    /\ batch = "saved"
    /\ Len(workbook) = 8
    /\ workbook[6].sheet_name = "MR Performance"
    /\ Len(workbook[6].table) = 2
    /\ workbook[5].table = pt_group_metrics

\* The rule with this name raises on the dataset when the batch run calls it.
FailsInBatch(module_name, df) ==
    \/ raises(module_name, df)
    \/ module_name = "MR Performance" /\ raises("PT Group Metrics", df)

\* C15: when a batch run has ended, every rule that does not fail on the
\* dataset has its result in a sheet of the saved workbook, whichever rule
\* before it failed.
C15_FailureIsolated ==
    batch \in {"saved", "failed"} =>
        \A i \in 1..Len(FixedListOrder) :
            ~FailsInBatch(FixedListOrder[i], df_orig) =>
                \E j \in 1..Len(output_file) :
                    output_file[j].sheet_name = FixedListOrder[i]

-----------------------------------------------------------------------------
(* PT groups and MR performance                                            *)

\* Two float cells hold the same value, up to the float64 rounding of the
\* operations that gave them (the field u is not compared).
SameFloat(x, y) ==
    /\ x.k = y.k
    /\ x.k = "fin" => x.n * y.d = y.n * x.d

\* C21: the PT Group Metrics table has exactly one row for every PT group of
\* the dataset; the row's num_people is the number of distinct MR positions
\* on the group's dataset rows, its four sales/target cells are the sums over
\* those rows, 24Q2_avg_productivity = target sum / num_people,
\* 24Q1_avg_productivity = 2024Q1 sum / num_people, 24Q2_growth_rate =
\* target sum / 2023Q2 sum - 1 and 24Q1_growth_rate = 2024Q1 sum /
\* 2023Q1 sum - 1 (inf or nan where the divisor is 0).  A growth cell is the
\* double the float division followed by the float subtraction gives.
C21_PTGroupMetrics ==
    Ran("PT Group Metrics") =>
        /\ \A group \in PTGroups :
               Cardinality({i \in DOMAIN result_df :
                                result_df[i].pt_group = group}) = 1
        /\ \A i \in DOMAIN result_df :
            LET row    == result_df[i]
                rows   == PTGroupRows(row.pt_group)
                people == Cardinality({rows[k].mr_pos : k \in DOMAIN rows})
                a23q1  == ColSum(rows, LAMBDA r : r.lyq1_actual_sales)
                a23q2  == ColSum(rows, LAMBDA r : r.lyq2_actual_sales)
                a24q1  == ColSum(rows, LAMBDA r : r.tyq1_actual_sales)
                target == ColSum(rows, LAMBDA r : r.tyq2_target)
            IN  /\ rows # <<>>
                /\ row.num_people = people
                /\ row.lyq1_actual_sales = a23q1
                /\ row.lyq2_actual_sales = a23q2
                /\ row.tyq1_actual_sales = a24q1
                /\ row.tyq2_target = target
                /\ SameFloat(row.avg_productivity_24Q2, Fin(target, people))
                /\ SameFloat(row.avg_productivity_24Q1, Fin(a24q1, people))
                /\ IF a23q2 > 0
                   THEN /\ SameFloat(row.growth_rate_24Q2,
                                     Fin(target - a23q2, a23q2))
                        /\ row.growth_rate_24Q2 = Sub1(Div(target, a23q2))
                   ELSE IsMarker(row.growth_rate_24Q2)
                /\ IF a23q1 > 0
                   THEN /\ SameFloat(row.growth_rate_24Q1,
                                     Fin(a24q1 - a23q1, a23q1))
                        /\ row.growth_rate_24Q1 = Sub1(Div(a24q1, a23q1))
                   ELSE IsMarker(row.growth_rate_24Q1)

\* C21 witness: two PT groups, one of them with two rows of a single MR (one
\* person, target sum 3, productivity 3, growth 3/2 - 1).
C21_Witness ==
    /\ Ran("PT Group Metrics")
    /\ Len(result_df) = 2
    /\ \E i \in DOMAIN result_df :
        /\ Len(PTGroupRows(result_df[i].pt_group)) = 2
        /\ result_df[i].num_people = 1
        /\ result_df[i].tyq2_target = 3
        /\ result_df[i].avg_productivity_24Q2 = Fin(3, 1)
        /\ result_df[i].growth_rate_24Q2 = Fin(1, 2)

\* C22: every row of the DM City Coverage table and of the RM Coverage table
\* has both a summed-sales cell and a summed-potential cell: no row of the
\* outer merge comes from only one of the two summaries.
C22_BothSummaries ==
    (Ran("DM City Coverage") \/ Ran("RM Coverage")) =>
        \A i \in DOMAIN result_df :
            /\ result_df[i].r6m_actual_sales # NaN
            /\ result_df[i].hco_potential_value # NaN

\* Totals of the Personnel Deployment table: the target column and the MR
\* count column, summed over its rows.
TableTarget == ColSum(result_df, LAMBDA r : r.tyq2_target)
TablePeople == ColSum(result_df, LAMBDA r : r.mr_pos)

\* The productivity cell of a Personnel Deployment row is at least the overall
\* productivity 4 * TableTarget / TablePeople.
AtLeastOverall(row) ==
    /\ row.productivity.k = "fin"
    /\ row.productivity.n * TablePeople >= 4 * TableTarget * row.productivity.d

\* C23: Personnel Deployment never flags every province.  The table of a
\* non-empty dataset has a row whose productivity is at least the overall
\* productivity (total target over the sum of the per-province MR counts,
\* times 4), and every such row has violation 'N'.
C23_NotEveryProvince ==
    Ran("Personnel Deployment") =>
        /\ \E i \in DOMAIN result_df : AtLeastOverall(result_df[i])
        /\ \A i \in DOMAIN result_df :
               AtLeastOverall(result_df[i]) => result_df[i].violation = "N"
        /\ \E i \in DOMAIN result_df : result_df[i].violation = "N"

\* C23 witness: two provinces with the productivity of the whole dataset each
\* and the same growth rate, which is the overall growth rate (neither metric
\* is strictly below the overall one); next to it, the case of a province that
\* is flagged while the other is not is C6_Witness.
C23_Witness ==
    /\ Ran("Personnel Deployment")
    /\ Len(result_df) = 2
    /\ \A i \in DOMAIN result_df :
        /\ AtLeastOverall(result_df[i])
        /\ result_df[i].productivity.n * TablePeople
               = 4 * TableTarget * result_df[i].productivity.d
        /\ result_df[i].growth_rate = result_df[1].growth_rate
        /\ result_df[i].growth_rate.k = "fin"
        /\ result_df[i].violation = "N"
    /\ TableTarget > 0

\* C24: on every MR Performance row the two flags of a quarter are never
\* both 'Yes' (Q2_Productivity_Index_Low with
\* Q2_Growth_Low_and_Productivity_Index_Medium, and the two Q1 flags), and a
\* row whose index of a quarter is undefined has both flags of that quarter
\* 'No'.
C24_FlagsExclusive ==
    Ran("MR Performance") =>
        \A i \in DOMAIN result_df :
            LET row == result_df[i]
            IN  /\ ~(/\ row.Q2_Productivity_Index_Low = "Yes"
                     /\ row.Q2_Growth_Low_and_Productivity_Index_Medium = "Yes")
                /\ ~(/\ row.Q1_Productivity_Index_Low = "Yes"
                     /\ row.Q1_Growth_Low_and_Productivity_Index_Medium = "Yes")
                /\ row.Q2_Productivity_Index.k = "nan" =>
                       /\ row.Q2_Productivity_Index_Low = "No"
                       /\ row.Q2_Growth_Low_and_Productivity_Index_Medium = "No"
                /\ row.Q1_Productivity_Index.k = "nan" =>
                       /\ row.Q1_Productivity_Index_Low = "No"
                       /\ row.Q1_Growth_Low_and_Productivity_Index_Medium = "No"

\* C24 witness: an MR with target 0 in a PT group whose targets are all 0 (the
\* index is 0/0) has both Q2 flags 'No', next to an MR of another group whose
\* index is defined.
C24_Witness ==
    /\ Ran("MR Performance")
    /\ \E i, j \in DOMAIN result_df :
        /\ result_df[i].Q2_Productivity_Index.k = "nan"
        /\ result_df[i].tyq2_target = 0
        /\ result_df[i].Q2_Productivity_Index_Low = "No"
        /\ result_df[i].Q2_Growth_Low_and_Productivity_Index_Medium = "No"
        /\ result_df[j].Q2_Productivity_Index.k = "fin"

\* Every MR position of the dataset has one name and one PT group.
OneNameOneGroup ==
    \A i, j \in DOMAIN df_orig :
        df_orig[i].mr_pos = df_orig[j].mr_pos =>
            /\ df_orig[i].mr_name = df_orig[j].mr_name
            /\ df_orig[i].pt_group = df_orig[j].pt_group

\* The MR Performance rows of a PT group.
GroupResult(group) == SelectSeq(result_df, LAMBDA r : r.pt_group = group)

\* The sum of a sequence of float cells: undefined when one of them is.
RECURSIVE SumFloat(_)
SumFloat(s) ==
    IF s = <<>> THEN Fin(0, 1)
    ELSE LET x == Head(s)
             y == SumFloat(Tail(s))
         IN  IF x.k = "fin" /\ y.k = "fin"
             THEN IF x.d = y.d THEN Fin(x.n + y.n, x.d)
                  ELSE Fin(x.n * y.d + y.n * x.d, x.d * y.d)
             ELSE NanF

\* The cells of the rows of group sum to the group's num_people: their
\* fractions exactly, each cell at most one double from its fraction.
SumsToPeople(cells, group) ==
    /\ SumFloat(cells).k = "fin"
    /\ SumFloat(cells).n = GroupMetrics(group).num_people * SumFloat(cells).d
    /\ \A i \in DOMAIN cells : cells[i].u \in {0 - 1, 0, 1}

\* C25 as stated: when every MR position has one name and one PT group, for
\* every PT group the targets of the group's MR Performance rows add up to the
\* group's target total and their Q2_Productivity_Index cells sum to the
\* group's num_people; likewise the 2024Q1 actuals and the Q1 index.
C25_IndexSum ==
    (Ran("MR Performance") /\ OneNameOneGroup) =>
        \A group \in PTGroups :
            LET rows == GroupResult(group)
            IN  /\ ColSum(rows, LAMBDA r : r.tyq2_target)
                       = GroupMetrics(group).tyq2_target
                /\ ColSum(rows, LAMBDA r : r.tyq1_actual_sales)
                       = GroupMetrics(group).tyq1_actual_sales
                /\ SumsToPeople([i \in DOMAIN rows |-> rows[i].Q2_Productivity_Index],
                                group)
                /\ SumsToPeople([i \in DOMAIN rows |-> rows[i].Q1_Productivity_Index],
                                group)

\* C25 amended: the totals add up as stated; the Q2_Productivity_Index cells
\* of a group sum to its num_people when the group's target total is not 0,
\* and are all undefined (0/0) when it is 0; likewise the Q1 index with the
\* group's 2024Q1 total.
C25_IndexSumDefined ==
    (Ran("MR Performance") /\ OneNameOneGroup) =>
        \A group \in PTGroups :
            LET rows == GroupResult(group)
            IN  /\ Len(rows) = GroupMetrics(group).num_people
                /\ ColSum(rows, LAMBDA r : r.tyq2_target)
                       = GroupMetrics(group).tyq2_target
                /\ ColSum(rows, LAMBDA r : r.tyq1_actual_sales)
                       = GroupMetrics(group).tyq1_actual_sales
                /\ IF GroupMetrics(group).tyq2_target # 0
                   THEN SumsToPeople(
                            [i \in DOMAIN rows |-> rows[i].Q2_Productivity_Index], group)
                   ELSE \A i \in DOMAIN rows : rows[i].Q2_Productivity_Index.k = "nan"
                /\ IF GroupMetrics(group).tyq1_actual_sales # 0
                   THEN SumsToPeople(
                            [i \in DOMAIN rows |-> rows[i].Q1_Productivity_Index], group)
                   ELSE \A i \in DOMAIN rows : rows[i].Q1_Productivity_Index.k = "nan"

\* C25 witness: a PT group of two MRs with targets 1 and 3 (indices 1/2 and
\* 3/2, sum 2) next to a group of one MR.
C25_Witness ==
    /\ Ran("MR Performance")
    /\ OneNameOneGroup
    /\ \E i, j \in DOMAIN result_df :
        /\ i # j
        /\ result_df[i].pt_group = result_df[j].pt_group
        /\ result_df[i].tyq2_target = 1
        /\ result_df[j].tyq2_target = 3
        /\ GroupMetrics(result_df[i].pt_group).num_people = 2
        /\ SameFloat(result_df[i].Q2_Productivity_Index, Fin(1, 2))
        /\ SameFloat(result_df[j].Q2_Productivity_Index, Fin(3, 2))
    /\ Cardinality(PTGroups) = 2

\* C26: no RM Deployment row has violation 'Yes' together with
\* span_range_check 'Yes'; a DM Deployment row has both 'Yes' exactly when its
\* span_of_control is 6 and its summed target is below 0.7 times the overall DM
\* productivity (the total target over the number of distinct DM positions).
C26_ViolationAndRange ==
    /\ Ran("RM Deployment") =>
        \A i \in DOMAIN result_df :
            ~(result_df[i].violation = "Yes" /\ result_df[i].span_range_check = "Yes")
    /\ Ran("DM Deployment") =>
        \A i \in DOMAIN result_df :
            LET row == result_df[i]
                dms == Cardinality({df_orig[k].dm_pos : k \in DOMAIN df_orig})
            IN  (row.violation = "Yes" /\ row.span_range_check = "Yes")
                    <=> /\ row.span_of_control = 6
                        /\ 10 * row.productivity * dms < 7 * TotalTarget

\* C26 witness: a DM with six MRs whose target is below 0.7 of the overall DM
\* productivity carries both flags, next to a DM in range and not in violation.
C26_Witness ==
    /\ Ran("DM Deployment")
    /\ \E i, j \in DOMAIN result_df :
        /\ result_df[i].span_of_control = 6
        /\ result_df[i].violation = "Yes"
        /\ result_df[i].span_range_check = "Yes"
        /\ result_df[j].span_range_check = "Yes"
        /\ result_df[j].violation = "No"

\* C26 witness, RM side: an RM with six DMs and a target below 0.7 of the
\* overall productivity is in range and not in violation.
C26_WitnessRM ==
    /\ Ran("RM Deployment")
    /\ \E i \in DOMAIN result_df :
        /\ result_df[i].span_of_control = 6
        /\ 10 * result_df[i].productivity
               * Cardinality({df_orig[k].rm_position_cd : k \in DOMAIN df_orig}) < 7 * TotalTarget
        /\ result_df[i].span_range_check = "Yes"
        /\ result_df[i].violation = "No"

\* The table the ffe_groundrules version of a rule returns on a dataset.
RuleOfGroundrules(module, df) ==
    CASE module = "MR City Coverage"     -> evaluate_mr_city_coverage_groundrules(df)
      [] module = "Personnel Deployment" -> check_personnel_deployment_groundrules(df)
      [] module = "DM Deployment"        -> evaluate_dm_deployment_groundrules(df)
      [] module = "RM Deployment"        -> evaluate_rm_deployment_groundrules(df)
      [] module = "PT Group Metrics"     -> calculate_pt_group_metrics_groundrules(df)
      [] module = "MR Performance"       ->
             evaluate_mr_performance_groundrules(
                 df, calculate_pt_group_metrics_groundrules(df))
      [] module = "DM City Coverage"     -> evaluate_dm_city_coverage_groundrules(df)
      [] module = "RM Coverage"          -> evaluate_rm_coverage_groundrules(df)

\* The table the ffe_groundrules_test version of a rule returns on a dataset.
RuleOfGroundrulesTest(module, df) ==
    IF module = "MR Performance"
    THEN evaluate_mr_performance(df, calculate_pt_group_metrics(df))
    ELSE module_func(module, df)

\* C27: the table a rule of ffe_groundrules_test returns on a dataset is the
\* table the rule of the same name of ffe_groundrules returns on the dataset
\* under its own column names, with the columns renamed by the mapping: the
\* same rows in the same order, the same values and flags; the PT-group table
\* given to evaluate_mr_performance likewise, and so every sheet of the
\* workbook "Show me the power!" writes.  Stated for the tables ffe_test.py
\* computes with ffe_groundrules_test and for the tables ffe.py computes with
\* ffe_groundrules.
C27_ModulesEquivalent ==
    IF UploadedToFfe
    THEN /\ rename_columns(result_df) =
                RuleOfGroundrulesTest(evaluation_module, rename_columns(df_orig))
         /\ pt_group_metrics # <<>> =>
                rename_columns(pt_group_metrics) =
                    calculate_pt_group_metrics(rename_columns(df_orig))
    ELSE /\ result_df # <<>> =>
                result_df =
                    rename_columns(RuleOfGroundrules(evaluation_module,
                                                     OriginalColumns(df_orig)))
         /\ pt_group_metrics # <<>> =>
                pt_group_metrics =
                    rename_columns(calculate_pt_group_metrics_groundrules(
                                       OriginalColumns(df_orig)))
         /\ batch = "saved" =>
                \A i \in DOMAIN workbook :
                    workbook[i].table =
                        rename_columns(RuleOfGroundrules(workbook[i].sheet_name,
                                                         OriginalColumns(df_orig)))

\* A row of the sheet written for a module satisfies P.
SheetHas(module, P(_)) ==
    \E i \in DOMAIN workbook :
        /\ workbook[i].sheet_name = module
        /\ \E k \in DOMAIN workbook[i].table : P(workbook[i].table[k])

\* C27 witness: "Show me the power!" has written the eight sheets for a
\* dataset of two DMs, one with span 6, inside the range 6..10, and a
\* productivity below 70% of the overall one (violation 'Yes'), the other
\* without violation; the tables name their columns dm_pos and mr_pos.
C27_Witness ==
    /\ batch = "saved"
    /\ Len(workbook) = 8
    /\ "dm_pos" \in DOMAIN df_orig[1]
    /\ SheetHas("DM Deployment",
                LAMBDA r : /\ r.span_of_control = 6
                           /\ r.span_range_check = "Yes"
                           /\ r.violation = "Yes")
    /\ SheetHas("DM Deployment", LAMBDA r : r.violation = "No")
    /\ SheetHas("MR City Coverage", LAMBDA r : "mr_pos" \in DOMAIN r)

=============================================================================
